---- MODULE Spec2Model ----
(***************************************************************************)
(* Marine Guard (oceanwatch-policymaker): the rule-based post-processing   *)
(* of the ML analysis module, the simulated detector run, the tab and auth *)
(* gating of the Index page, the row-level security of the database        *)
(* schema, the usePollutionData hook, the model caches and their loaders,  *)
(* and the PolicyAnalyzer run, each as a state machine with its own        *)
(* specification.                                                          *)
(*                                                                         *)
(* Conventions.  A JavaScript string whose characters matter (it is        *)
(* searched with includes or lower-cased) is a sequence of one-character   *)
(* strings.  A score or confidence is an integer number of hundredths      *)
(* (0.3 is 30); the product of two of them is in ten-thousandths.          *)
(***************************************************************************)
EXTENDS Integers, Sequences, FiniteSets, Bags, TLC

VARIABLES
  \* ---- analyzeText (mlAnalysis) ----
  mlVersion,      \* which revision of mlAnalysis is built: "keyword" | "zeroShot"
  text,           \* the argument of analyzeText
  tpc,            \* position inside analyzeText
  textProgress,   \* the values handed to onProgress, in order
  detectedType,   \* topPollutionType
  confidence,     \* analysisConfidence, hundredths
  textResult,     \* the resolved PolicyMatch[] (<<>> until resolved)
  textError,      \* the message of the rejected promise ("" when none)
  \* ---- analyzeImage (mlAnalysis) ----
  predictions,    \* what the classifier returned for the image
  ipc,            \* position inside analyzeImage
  imageProgress,  \* the values handed to onProgress, in order
  imageResult,    \* the resolved ImageAnalysisResult[] (<<>> until resolved)
  imageError,     \* the message of the rejected promise ("" when none)
  \* ---- PollutionDetector ----
  imageFile,        \* useState<File | null>
  imagePreview,     \* useState<string | null>: the file whose data URL is shown
  det_isAnalyzing,  \* isAnalyzing
  det_analysisProgress,  \* analysisProgress
  det_results,      \* results: NoResults (null) or the detections
  det_pc,           \* simulateAnalysis: 0 when not running, k when awaiting the k-th timeout
  det_progressLog,  \* the values given to setAnalysisProgress by the latest run, in order
  det_pendingReads, \* files whose FileReader.readAsDataURL has not fired onload yet
  det_toast,        \* title of the latest toast ("" when none)
  \* ---- Index page ----
  auth_loading,     \* useAuth().loading
  auth_user,        \* useAuth().user: NoValue or a user id
  auth_profile,     \* useAuth().profile: NoValue or the id of the user it belongs to
  activeTab,        \* useState('dashboard')
  route,            \* the router's location
  idx_view,         \* what Index last rendered: "loading" | "null" | "page" | "unmounted"
  idx_component,    \* the component rendered as ActiveComponent (NoValue outside "page")
  idx_effectPending,   \* the [user, loading, navigate] effect is scheduled
  idx_signOutPending,  \* handleSignOut calls awaiting signOut()
  idx_lastClick,    \* id of the tab button clicked last (NoValue before any click)
  navLog,           \* the navigate calls made so far: [to, by]
  \* ---- database (auth.users, public.profiles, public.pollution_incidents) ----
  db_users,         \* auth.users: user id -> "unused" | "active" | "deleted"
  db_profiles,      \* public.profiles: the rows [user_id, role], in insertion order
  db_incidents,     \* public.pollution_incidents: the set of rows [id, user_id, status]
  db_nextIncident,  \* stands for gen_random_uuid(): ids are never reused
  db_policies,      \* public.policies: the set of policy ids
  db_matches,       \* public.policy_matches: the bag of rows [incident_id, policy_id]
  db_lastOp,        \* the latest request: [kind, actor, arg, ok]; arg is the sign-up's role metadata,
                    \* or "cascaded" when a user deletion removed policy_matches rows
  \* ---- usePollutionData ----
  hk_phase,         \* "rendered" (effect not run yet) | "mounted" | "unmounted"
  hk_channel,       \* the realtime channel: "none" | "joining" | "subscribed" | "removed"
  hk_incidents,     \* incidents: the table version the list was read from (0 is [])
  hk_loading,       \* loading
  hk_error,         \* error: NoValue or a message
  hk_table,         \* version of pollution_incidents on the backend
  hk_events,        \* change events emitted to the channel and not delivered yet
  hk_delivered,     \* change events delivered to the channel's callback so far
  hk_fetches,       \* the fetchIncidents runs in issue order: [origin, caller, st, out, data]
  hk_calls,         \* the mutation calls: [kind, st, ackedAt, refresh, result]
  \* ---- model caches (mlAnalysis) ----
  ld_cache,         \* imageClassifier, textClassifier: 0 (null) or the construction assigned
  ld_pipelines,     \* the pipeline(...) constructions in start order: [model, device, st, cached]
  ld_calls,         \* the loader calls: [model, st, pipeline, result, error]
  \* ---- PolicyAnalyzer ----
  pa_query,         \* analysisQuery
  pa_doc,           \* uploadedDoc: NoValue or the file
  pa_isAnalyzing,   \* isAnalyzing
  pa_analysisProgress,  \* analysisProgress
  pa_policyMatches, \* policyMatches: NoMatches (null) or the matches
  pa_toast,         \* the latest toast: [title, description]
  pa_pc,            \* performAnalysis: "idle" or the await it is suspended at
  pa_text,          \* the text handed to analyzeText
  pa_call,          \* the loader call (index in ld_calls) analyzeText awaits
  pa_progressLog,   \* the values given to setAnalysisProgress by the latest run, in order
  pa_before,        \* policyMatches when the latest run started
  pa_outcome,       \* how the latest run ended: [result, at]
  pa_lastHandler    \* the event handler that ran last

imageVars == <<predictions, ipc, imageProgress, imageResult, imageError>>
textVars == <<mlVersion, text, tpc, textProgress, detectedType, confidence, textResult, textError>>

detectorVars == <<imageFile, imagePreview, det_isAnalyzing, det_analysisProgress,
                  det_results, det_pc, det_progressLog, det_pendingReads, det_toast>>

authVars == <<auth_loading, auth_user, auth_profile>>
indexVars == <<authVars, activeTab, route, idx_view, idx_component, idx_effectPending,
               idx_signOutPending, idx_lastClick, navLog>>

dbVars == <<db_users, db_profiles, db_incidents, db_nextIncident, db_policies, db_matches, db_lastOp>>

hookVars == <<hk_phase, hk_channel, hk_incidents, hk_loading, hk_error, hk_table,
              hk_events, hk_delivered, hk_fetches, hk_calls>>

loaderVars == <<ld_cache, ld_pipelines, ld_calls>>

analyzerVars == <<pa_query, pa_doc, pa_isAnalyzing, pa_analysisProgress, pa_policyMatches,
                  pa_toast, pa_pc, pa_text, pa_call, pa_progressLog, pa_before, pa_outcome,
                  pa_lastHandler>>

vars == <<textVars, imageVars, detectorVars, indexVars, dbVars, hookVars, loaderVars, analyzerVars>>
nonTextVars == <<imageVars, detectorVars, indexVars, dbVars, hookVars, loaderVars, analyzerVars>>
nonImageVars == <<textVars, detectorVars, indexVars, dbVars, hookVars, loaderVars, analyzerVars>>
nonDetectorVars == <<textVars, imageVars, indexVars, dbVars, hookVars, loaderVars, analyzerVars>>
nonIndexVars == <<textVars, imageVars, detectorVars, dbVars, hookVars, loaderVars, analyzerVars>>
nonDbVars == <<textVars, imageVars, detectorVars, indexVars, hookVars, loaderVars, analyzerVars>>
nonHookVars == <<textVars, imageVars, detectorVars, indexVars, dbVars, loaderVars, analyzerVars>>
nonLoaderVars == <<textVars, imageVars, detectorVars, indexVars, dbVars, hookVars, analyzerVars>>
\* the analyzer's steps state the loader variables themselves
nonAnalyzerVars == <<textVars, imageVars, detectorVars, indexVars, dbVars, hookVars>>

\* null / undefined
NoValue == "null"

Min(a, b) == IF a < b THEN a ELSE b
Max(a, b) == IF a > b THEN a ELSE b

(***************************************************************************)
(* String.prototype.toLowerCase and String.prototype.includes              *)
(***************************************************************************)
UpperChars == <<"A", "B", "C", "D", "E", "F", "G", "H", "I", "J", "K", "L", "M", "N", "O", "P", "Q", "R", "S", "T", "U", "V", "W", "X", "Y", "Z">>
LowerChars == <<"a", "b", "c", "d", "e", "f", "g", "h", "i", "j", "k", "l", "m", "n", "o", "p", "q", "r", "s", "t", "u", "v", "w", "x", "y", "z">>

toLowerCaseChar(c) ==
  IF \E i \in 1..Len(UpperChars) : UpperChars[i] = c
  THEN LowerChars[CHOOSE i \in 1..Len(UpperChars) : UpperChars[i] = c]
  ELSE c

toLowerCase(s) == [i \in 1..Len(s) |-> toLowerCaseChar(s[i])]

\* s.includes(k): k occurs in s as a contiguous substring (the empty k always does)
includes(s, k) ==
  \E i \in 0..(Len(s) - Len(k)) : \A j \in 1..Len(k) : s[i + j] = k[j]

(***************************************************************************)
(* analyzeText: the keyword table, in declaration (= Object.entries) order *)
(***************************************************************************)
textPollutionKeywords == <<
  [type |-> "plastic pollution",
   keywords |-> <<
     <<"p", "l", "a", "s", "t", "i", "c">>,
     <<"m", "i", "c", "r", "o", "p", "l", "a", "s", "t", "i", "c">>,
     <<"b", "o", "t", "t", "l", "e">>,
     <<"b", "a", "g">>,
     <<"d", "e", "b", "r", "i", "s">>>>],
  [type |-> "oil spill",
   keywords |-> <<
     <<"o", "i", "l">>,
     <<"s", "p", "i", "l", "l">>,
     <<"p", "e", "t", "r", "o", "l", "e", "u", "m">>,
     <<"c", "r", "u", "d", "e">>,
     <<"l", "e", "a", "k">>>>],
  [type |-> "chemical contamination",
   keywords |-> <<
     <<"c", "h", "e", "m", "i", "c", "a", "l">>,
     <<"t", "o", "x", "i", "c">>,
     <<"c", "o", "n", "t", "a", "m", "i", "n", "a", "t", "i", "o", "n">>,
     <<"p", "o", "l", "l", "u", "t", "a", "n", "t">>>>],
  [type |-> "marine debris",
   keywords |-> <<
     <<"d", "e", "b", "r", "i", "s">>,
     <<"t", "r", "a", "s", "h">>,
     <<"g", "a", "r", "b", "a", "g", "e">>,
     <<"w", "a", "s", "t", "e">>,
     <<"l", "i", "t", "t", "e", "r">>>>],
  [type |-> "industrial waste",
   keywords |-> <<
     <<"i", "n", "d", "u", "s", "t", "r", "i", "a", "l">>,
     <<"f", "a", "c", "t", "o", "r", "y">>,
     <<"d", "i", "s", "c", "h", "a", "r", "g", "e">>,
     <<"e", "f", "f", "l", "u", "e", "n", "t">>>>],
  [type |-> "sewage discharge",
   keywords |-> <<
     <<"s", "e", "w", "a", "g", "e">>,
     <<"w", "a", "s", "t", "e", "w", "a", "t", "e", "r">>,
     <<"r", "u", "n", "o", "f", "f">>,
     <<"d", "r", "a", "i", "n", "a", "g", "e">>>>]
>>

\* confidence = Math.min(0.9, 0.5 + (matchCount * 0.1)), in hundredths
keywordConfidence_NoCap(matchCount) == 50 + matchCount * 10

keywordConfidence(matchCount) == Min(90, 50 + matchCount * 10)

\* keywords.filter(keyword => text.toLowerCase().includes(keyword)).length
matchCount(txt, keywords) ==
  Cardinality({k \in 1..Len(keywords) : includes(toLowerCase(txt), keywords[k])})

\* the for..of loop over Object.entries(pollutionKeywords) from entry i on:
\* the first entry with a match decides and breaks; the defaults stay otherwise
RECURSIVE detectFrom(_, _)
detectFrom(txt, i) ==
  IF i > Len(textPollutionKeywords)
  THEN [detectedType |-> "general pollution", confidence |-> 50]
  ELSE LET n == matchCount(txt, textPollutionKeywords[i].keywords)
       IN  IF n > 0
           THEN [detectedType |-> textPollutionKeywords[i].type,
                 confidence |-> keywordConfidence(n)]
           ELSE detectFrom(txt, i + 1)

detectPollution(txt) == detectFrom(txt, 1)

\* the candidate labels of the zero-shot revision
pollutionLabels ==
  <<"plastic pollution", "oil spill", "chemical contamination",
    "marine debris", "industrial waste", "sewage discharge">>

(***************************************************************************)
(* analyzeText: the mock policy table and the matches built from it        *)
(***************************************************************************)
policyDatabase == <<
  [id |-> "1", title |-> "MARPOL Convention - Annex V (Garbage)",
   type |-> "agreement", relevanceScore |-> 95, status |-> "active"],
  [id |-> "2", title |-> "EU Marine Strategy Framework Directive",
   type |-> "framework", relevanceScore |-> 88, status |-> "active"],
  [id |-> "3", title |-> "Clean Water Act - Marine Protection",
   type |-> "law", relevanceScore |-> 82, status |-> "active"]
>>

\* Math.max(0.6, analysisConfidence * policy.relevanceScore), in ten-thousandths
matchRelevance(conf, policy) == Max(6000, conf * policy.relevanceScore)

complianceStatusFor_AtLeast(conf, index) ==
  IF conf >= 80
  THEN (IF index = 0 THEN "violation" ELSE IF index = 1 THEN "unclear" ELSE "compliant")
  ELSE "unclear"

\* index is the 0-based position in policyDatabase
complianceStatusFor(conf, index) ==
  IF conf > 80
  THEN (IF index = 0 THEN "violation" ELSE IF index = 1 THEN "unclear" ELSE "compliant")
  ELSE "unclear"

\* the callback of policyDatabase.map; the document keeps the policy's fields
\* and takes the computed relevanceScore (ten-thousandths)
policyMatch(conf, type, index) ==
  LET policy == policyDatabase[index + 1]
  IN  [document |-> [policy EXCEPT !.relevanceScore = matchRelevance(conf, policy)],
       matchedSections |-> <<<<"Section related to ", type>>,
                             <<"Compliance requirements for ", type>>>>,
       complianceStatus |-> complianceStatusFor(conf, index),
       recommendations |-> <<<<"Address ", type, " according to ", policy.title>>,
                             <<"Implement immediate mitigation measures">>,
                             <<"Report to relevant authorities as required">>>>]

mapPolicies(conf, type) ==
  [i \in 1..Len(policyDatabase) |-> policyMatch(conf, type, i - 1)]

compareMatches_Ascending(a, b) == a.document.relevanceScore - b.document.relevanceScore

\* the comparator handed to sort
compareMatches(a, b) == b.document.relevanceScore - a.document.relevanceScore

\* Array.prototype.sort is stable: x goes behind every element that the
\* comparator does not order after it
insertMatch(sorted, x) ==
  LET k == Cardinality({i \in 1..Len(sorted) : compareMatches(sorted[i], x) <= 0})
  IN  SubSeq(sorted, 1, k) \o <<x>> \o SubSeq(sorted, k + 1, Len(sorted))

RECURSIVE sortFrom(_, _, _)
sortFrom(ms, i, acc) ==
  IF i > Len(ms) THEN acc ELSE sortFrom(ms, i + 1, insertMatch(acc, ms[i]))

sortMatches(ms) == sortFrom(ms, 1, <<>>)

buildMatches(conf, type) == sortMatches(mapPolicies(conf, type))

analyzeTextFailure == "Failed to analyze text. Please try again."

(***************************************************************************)
(* Inputs of analyzeText                                                   *)
(***************************************************************************)
MaxWords == 4

TextWords == <<
  <<"m", "i", "c", "r", "o", "p", "l", "a", "s", "t", "i", "c">>,
  <<"b", "o", "t", "t", "l", "e">>,
  <<"b", "a", "g">>,
  <<"d", "e", "b", "r", "i", "s">>,
  <<"O", "i", "l">>,
  <<"w", "a", "s", "t", "e", "w", "a", "t", "e", "r">>,
  <<"T", "O", "X", "I", "C">>,
  <<"o", "c", "e", "a", "n">>
>>

\* the words with index in S, in table order, joined by single spaces
RECURSIVE joinFrom(_, _)
joinFrom(S, i) ==
  IF i > Len(TextWords) THEN <<>>
  ELSE IF i \in S
       THEN LET rest == joinFrom(S, i + 1)
            IN  IF rest = <<>> THEN TextWords[i] ELSE TextWords[i] \o <<" ">> \o rest
       ELSE joinFrom(S, i + 1)

Range(s) == {s[i] : i \in DOMAIN s}

\* every keyword of the table, as a text of its own
KeywordTexts ==
  UNION {Range(textPollutionKeywords[c].keywords) : c \in 1..Len(textPollutionKeywords)}

TextInputs ==
  {joinFrom(S, 1) : S \in {T \in SUBSET (1..Len(TextWords)) : Cardinality(T) <= MaxWords}}
  \cup KeywordTexts

\* scores[0] of the zero-shot classifier, hundredths
ZeroShotScores == {20, 63, 79, 80, 81, 97}
(***************************************************************************)
(* analyzeText, one action per stretch between awaits.  Any throw inside   *)
(* the try block is caught and replaced by analyzeTextFailure.             *)
(***************************************************************************)
TextIdle ==
  /\ tpc = "idle"
  /\ textProgress = <<>>
  /\ detectedType = ""
  /\ confidence = 0
  /\ textResult = <<>>
  /\ textError = ""

TextInit ==
  /\ mlVersion \in {"keyword", "zeroShot"}
  /\ text \in TextInputs
  /\ TextIdle

TextIdleInput ==
  /\ mlVersion = "keyword"
  /\ text = <<>>
  /\ TextIdle

\* onProgress(20); await getTextClassifier() (and getSentimentAnalyzer())
AnalyzeTextStart ==
  /\ tpc = "idle"
  /\ tpc' = "loading"
  /\ textProgress' = Append(textProgress, 20)
  /\ UNCHANGED <<mlVersion, text, detectedType, confidence, textResult, textError>>
  /\ UNCHANGED nonTextVars

\* the models are loaded: onProgress(40); await classifier(text ...)
TextModelsLoaded ==
  /\ tpc = "loading"
  /\ tpc' = "classifying"
  /\ textProgress' = Append(textProgress, 40)
  /\ UNCHANGED <<mlVersion, text, detectedType, confidence, textResult, textError>>
  /\ UNCHANGED nonTextVars

\* keyword revision: the sentiment call returned; everything up to the return
\* runs without another await
KeywordClassified ==
  /\ mlVersion = "keyword"
  /\ tpc = "classifying"
  /\ LET d == detectPollution(text)
     IN  /\ detectedType' = d.detectedType
         /\ confidence' = d.confidence
         /\ textResult' = buildMatches(d.confidence, d.detectedType)
  /\ textProgress' = textProgress \o <<60, 80, 100>>
  /\ tpc' = "done"
  /\ UNCHANGED <<mlVersion, text, textError>>
  /\ UNCHANGED nonTextVars

\* zero-shot revision: classifier(text, pollutionLabels) returned labels[0] and
\* scores[0]; onProgress(60); await sentimentAnalyzer(text)
ZeroShotClassified ==
  /\ mlVersion = "zeroShot"
  /\ tpc = "classifying"
  /\ \E l \in 1..Len(pollutionLabels), sc \in ZeroShotScores :
       /\ detectedType' = pollutionLabels[l]
       /\ confidence' = sc
  /\ textProgress' = Append(textProgress, 60)
  /\ tpc' = "sentiment"
  /\ UNCHANGED <<mlVersion, text, textResult, textError>>
  /\ UNCHANGED nonTextVars

\* zero-shot revision: the sentiment call returned
ZeroShotSentimentDone ==
  /\ tpc = "sentiment"
  /\ textResult' = buildMatches(confidence, detectedType)
  /\ textProgress' = textProgress \o <<80, 100>>
  /\ tpc' = "done"
  /\ UNCHANGED <<mlVersion, text, detectedType, confidence, textError>>
  /\ UNCHANGED nonTextVars

\* an awaited model load or model call rejected
AnalyzeTextFail ==
  /\ tpc \in {"loading", "classifying", "sentiment"}
  /\ tpc' = "failed"
  /\ textError' = analyzeTextFailure
  /\ UNCHANGED <<mlVersion, text, textProgress, detectedType, confidence, textResult>>
  /\ UNCHANGED nonTextVars

TextNext ==
  \/ AnalyzeTextStart
  \/ TextModelsLoaded
  \/ KeywordClassified
  \/ ZeroShotClassified
  \/ ZeroShotSentimentDone
  \/ AnalyzeTextFail


(***************************************************************************)
(* analyzeImage (the same in both revisions of mlAnalysis).  A result's    *)
(* location is four Math.random draws that nothing reads back; it is left  *)
(* out of the result records.                                              *)
(***************************************************************************)
imagePollutionKeywords == <<
  <<"p", "l", "a", "s", "t", "i", "c">>,
  <<"w", "a", "s", "t", "e">>,
  <<"t", "r", "a", "s", "h">>,
  <<"d", "e", "b", "r", "i", "s">>,
  <<"o", "i", "l">>,
  <<"s", "p", "i", "l", "l">>,
  <<"c", "o", "n", "t", "a", "m", "i", "n", "a", "t", "i", "o", "n">>,
  <<"p", "o", "l", "l", "u", "t", "i", "o", "n">>,
  <<"g", "a", "r", "b", "a", "g", "e">>,
  <<"l", "i", "t", "t", "e", "r">>
>>

str_plastic == <<"p", "l", "a", "s", "t", "i", "c">>
str_trash == <<"t", "r", "a", "s", "h">>
str_garbage == <<"g", "a", "r", "b", "a", "g", "e">>
str_oil == <<"o", "i", "l">>
str_spill == <<"s", "p", "i", "l", "l">>
str_chemical == <<"c", "h", "e", "m", "i", "c", "a", "l">>
str_contamination == <<"c", "o", "n", "t", "a", "m", "i", "n", "a", "t", "i", "o", "n">>
str_PlasticDebris == <<"P", "l", "a", "s", "t", "i", "c", " ", "D", "e", "b", "r", "i", "s">>
str_OilContamination == <<"O", "i", "l", " ", "C", "o", "n", "t", "a", "m", "i", "n", "a", "t", "i", "o", "n">>
str_ChemicalWaste == <<"C", "h", "e", "m", "i", "c", "a", "l", " ", "W", "a", "s", "t", "e">>
str_Potential == <<"P", "o", "t", "e", "n", "t", "i", "a", "l", " ">>

\* pollutionKeywords.some(keyword => label.includes(keyword) || keyword.includes(label))
isPollutionRelated(label) ==
  \E k \in 1..Len(imagePollutionKeywords) :
    \/ includes(label, imagePollutionKeywords[k])
    \/ includes(imagePollutionKeywords[k], label)

\* the condition of the if inside forEach; label is already lower-cased
keepPrediction(label, score) == isPollutionRelated(label) \/ score > 30

severityPlastic(score) == IF score > 70 THEN "high" ELSE IF score > 50 THEN "medium" ELSE "low"

severityHazard_AtLeast(score) ==
  IF score >= 60 THEN "critical" ELSE IF score >= 40 THEN "high" ELSE "medium"

\* the ternary shared by the oil and the chemical branch
severityHazard(score) ==
  IF score > 60 THEN "critical" ELSE IF score > 40 THEN "high" ELSE "medium"

severityOther(score) == IF score > 80 THEN "high" ELSE IF score > 60 THEN "medium" ELSE "low"

\* the if / else-if chain that sets pollutionType and severity
classifyPrediction(prediction) ==
  LET label == toLowerCase(prediction.label)
      score == prediction.score
  IN  IF includes(label, str_plastic) \/ includes(label, str_trash) \/ includes(label, str_garbage)
      THEN [type |-> str_PlasticDebris, confidence |-> score, severity |-> severityPlastic(score)]
      ELSE IF includes(label, str_oil) \/ includes(label, str_spill)
      THEN [type |-> str_OilContamination, confidence |-> score, severity |-> severityHazard(score)]
      ELSE IF includes(label, str_chemical) \/ includes(label, str_contamination)
      THEN [type |-> str_ChemicalWaste, confidence |-> score, severity |-> severityHazard(score)]
      ELSE [type |-> prediction.label, confidence |-> score, severity |-> severityOther(score)]

\* predictions.forEach from index i on, pushing onto results
RECURSIVE collectFrom(_, _, _)
collectFrom(preds, i, results) ==
  IF i > Len(preds) THEN results
  ELSE IF keepPrediction(toLowerCase(preds[i].label), preds[i].score)
       THEN collectFrom(preds, i + 1, Append(results, classifyPrediction(preds[i])))
       ELSE collectFrom(preds, i + 1, results)

\* the generic result pushed when nothing was kept
potentialResult(topPrediction) ==
  [type |-> str_Potential \o topPrediction.label,
   confidence |-> topPrediction.score,
   severity |-> IF topPrediction.score > 70 THEN "medium" ELSE "low"]

sliceLimit == 5

sliceResults_NoLimit(results) == results

\* results.slice(0, 5)
sliceResults(results) == SubSeq(results, 1, Min(sliceLimit, Len(results)))

imageResults(preds) ==
  LET results == collectFrom(preds, 1, <<>>)
  IN  sliceResults(IF Len(results) = 0 /\ Len(preds) > 0
                   THEN Append(results, potentialResult(preds[1]))
                   ELSE results)

analyzeImageFailure == "Failed to analyze image. Please try again."

(***************************************************************************)
(* Outputs of the image classifier                                         *)
(***************************************************************************)
MaxPredictions == 6

ImageLabels == {
  <<"P", "l", "a", "s", "t", "i", "c", " ", "B", "a", "g">>,
  <<"t", "r", "a", "s", "h">>,
  <<"o", "i", "l", " ", "f", "i", "l", "t", "e", "r">>,
  <<"s", "p", "i", "l", "l">>,
  <<"c", "h", "e", "m", "i", "c", "a", "l">>,
  <<"c", "o", "n", "t", "a", "m", "i", "n", "a", "t", "i", "o", "n">>,
  <<"l", "i", "t">>,
  <<"s", "e", "a", "s", "h", "o", "r", "e">>,
  <<"w", "a", "s", "t", "e">>
}

ImageScores == {10, 30, 31, 40, 41, 50, 51, 60, 61, 70, 71, 80, 81}

\* the predictions that make up the longer outputs
CorePredictions == {
  [label |-> <<"P", "l", "a", "s", "t", "i", "c", " ", "B", "a", "g">>, score |-> 75],
  [label |-> <<"o", "i", "l", " ", "f", "i", "l", "t", "e", "r">>, score |-> 65],
  [label |-> <<"s", "e", "a", "s", "h", "o", "r", "e">>, score |-> 20]
}

SeqsUpTo(S, n) == UNION {[1..k -> S] : k \in 0..n}

PredictionOutputs ==
  SeqsUpTo(CorePredictions, MaxPredictions)
  \cup {<<[label |-> l, score |-> sc]>> : l \in ImageLabels, sc \in ImageScores}

(***************************************************************************)
(* analyzeImage, one action per stretch between awaits                     *)
(***************************************************************************)
ImageIdle ==
  /\ predictions = <<>>
  /\ ipc = "idle"
  /\ imageProgress = <<>>
  /\ imageResult = <<>>
  /\ imageError = ""

\* onProgress(20); await getImageClassifier()
AnalyzeImageStart ==
  /\ ipc = "idle"
  /\ ipc' = "loading"
  /\ imageProgress' = Append(imageProgress, 20)
  /\ UNCHANGED <<predictions, imageResult, imageError>>
  /\ UNCHANGED nonImageVars

\* the classifier is loaded: onProgress(40); await classifier(imageUrl)
ImageModelLoaded ==
  /\ ipc = "loading"
  /\ ipc' = "classifying"
  /\ imageProgress' = Append(imageProgress, 40)
  /\ UNCHANGED <<predictions, imageResult, imageError>>
  /\ UNCHANGED nonImageVars

\* the classifier returned; everything up to the return runs without an await
ImageClassified ==
  /\ ipc = "classifying"
  /\ \E preds \in PredictionOutputs :
       /\ predictions' = preds
       /\ imageResult' = imageResults(preds)
  /\ imageProgress' = imageProgress \o <<70, 100>>
  /\ ipc' = "done"
  /\ UNCHANGED imageError
  /\ UNCHANGED nonImageVars

\* the awaited model load or model call rejected
AnalyzeImageFail ==
  /\ ipc \in {"loading", "classifying"}
  /\ ipc' = "failed"
  /\ imageError' = analyzeImageFailure
  /\ UNCHANGED <<predictions, imageProgress, imageResult>>
  /\ UNCHANGED nonImageVars

ImageNext ==
  \/ AnalyzeImageStart
  \/ ImageModelLoaded
  \/ ImageClassified
  \/ AnalyzeImageFail


(***************************************************************************)
(* PollutionDetector: file selection and the simulated analysis run        *)
(***************************************************************************)
\* the files a user can pick or drop, by name
Files == {"beach.png", "harbour.jpg", "notes.txt"}

\* file.type.startsWith('image/')
isImageFile(file) == file \in {"beach.png", "harbour.jpg"}

\* results === null
NoResults == <<>>

analysisSteps_Swapped == <<20, 70, 45, 90, 100>>

\* steps[k].progress
analysisSteps == <<20, 45, 70, 90, 100>>

mockResults == <<
  [type |-> "Plastic Debris", confidence |-> 94, severity |-> "high"],
  [type |-> "Oil Contamination", confidence |-> 87, severity |-> "critical"],
  [type |-> "Chemical Waste", confidence |-> 76, severity |-> "medium"]
>>

DetectorIdle ==
  /\ imageFile = NoValue
  /\ imagePreview = NoValue
  /\ det_isAnalyzing = FALSE
  /\ det_analysisProgress = 0
  /\ det_results = NoResults
  /\ det_pc = 0
  /\ det_progressLog = <<>>
  /\ det_pendingReads = {}
  /\ det_toast = ""

\* the shared body of handleFileSelect and handleDrop once the file is accepted
acceptFile(file) ==
  /\ imageFile' = file
  /\ det_results' = NoResults
  /\ det_pendingReads' = det_pendingReads \cup {file}

\* onChange of the file input; event.target.files[0] is undefined when the
\* dialog is cancelled
handleFileSelect ==
  /\ \E file \in Files \cup {NoValue} :
       IF file # NoValue
       THEN acceptFile(file)
       ELSE UNCHANGED <<imageFile, det_results, det_pendingReads>>
  /\ UNCHANGED <<imagePreview, det_isAnalyzing, det_analysisProgress, det_pc,
                 det_progressLog, det_toast>>
  /\ UNCHANGED nonDetectorVars

\* onDrop of the upload area; only image files are accepted
handleDrop ==
  /\ \E file \in Files \cup {NoValue} :
       IF file # NoValue /\ isImageFile(file)
       THEN acceptFile(file)
       ELSE UNCHANGED <<imageFile, det_results, det_pendingReads>>
  /\ UNCHANGED <<imagePreview, det_isAnalyzing, det_analysisProgress, det_pc,
                 det_progressLog, det_toast>>
  /\ UNCHANGED nonDetectorVars

\* reader.onload of one of the readers started above
readerLoaded ==
  /\ \E file \in det_pendingReads :
       /\ imagePreview' = file
       /\ det_pendingReads' = det_pendingReads \ {file}
  /\ UNCHANGED <<imageFile, det_isAnalyzing, det_analysisProgress, det_results,
                 det_pc, det_progressLog, det_toast>>
  /\ UNCHANGED nonDetectorVars

\* a click on the Analyze button, which is rendered only with a preview and
\* is disabled while isAnalyzing; simulateAnalysis up to its first await
simulateAnalysis ==
  /\ imagePreview # NoValue
  /\ ~det_isAnalyzing
  /\ IF imageFile = NoValue
     THEN UNCHANGED <<det_isAnalyzing, det_analysisProgress, det_pc, det_progressLog>>
     ELSE /\ det_isAnalyzing' = TRUE
          /\ det_analysisProgress' = 0
          /\ det_progressLog' = <<0>>
          /\ det_pc' = 1
  /\ UNCHANGED <<imageFile, imagePreview, det_results, det_pendingReads, det_toast>>
  /\ UNCHANGED nonDetectorVars

\* the k-th 800 ms timeout fired: setAnalysisProgress(step.progress); after the
\* last step the loop ends and the results, the flag and the toast are set
\* in the same continuation
analysisTimeout ==
  /\ det_pc \in 1..Len(analysisSteps)
  /\ det_analysisProgress' = analysisSteps[det_pc]
  /\ det_progressLog' = Append(det_progressLog, analysisSteps[det_pc])
  /\ IF det_pc < Len(analysisSteps)
     THEN /\ det_pc' = det_pc + 1
          /\ UNCHANGED <<det_results, det_isAnalyzing, det_toast>>
     ELSE /\ det_pc' = 0
          /\ det_results' = mockResults
          /\ det_isAnalyzing' = FALSE
          /\ det_toast' = "Analysis Complete"
  /\ UNCHANGED <<imageFile, imagePreview, det_pendingReads>>
  /\ UNCHANGED nonDetectorVars

DetectorNext ==
  \/ handleFileSelect
  \/ handleDrop
  \/ readerLoaded
  \/ simulateAnalysis
  \/ analysisTimeout


(***************************************************************************)
(* Index page: auth gating, tabs, sign-out.  useAuth and the router are    *)
(* not part of the sources at hand; they appear as the environment that    *)
(* changes loading, user and profile and that mounts Index at "/".         *)
(***************************************************************************)
MaxNavigations == 2
MaxPendingSignOuts == 2

Users == {"u1", "u2"}

tabs == <<
  [id |-> "dashboard", label |-> "Dashboard", component |-> "Dashboard"],
  [id |-> "detector", label |-> "Pollution Detection", component |-> "PollutionDetector"],
  [id |-> "map", label |-> "Interactive Map", component |-> "InteractiveMap"],
  [id |-> "policy", label |-> "Policy Analysis", component |-> "PolicyAnalyzer"]
>>

ActiveComponent_AlwaysDashboard(tab) == "Dashboard"

\* tabs.find(tab => tab.id === activeTab)?.component || Dashboard
ActiveComponent(tab) ==
  IF \E i \in 1..Len(tabs) : tabs[i].id = tab
  THEN tabs[CHOOSE i \in 1..Len(tabs) :
              tabs[i].id = tab /\ \A j \in 1..(i - 1) : tabs[j].id # tab].component
  ELSE "Dashboard"

\* the two early returns of the render function and the page behind them
renderView(loading, user) ==
  IF loading THEN "loading" ELSE IF user = NoValue THEN "null" ELSE "page"

renderComponent(loading, user, tab) ==
  IF renderView(loading, user) = "page" THEN ActiveComponent(tab) ELSE NoValue

\* navigate(to), called by the effect or by handleSignOut; leaving "/" unmounts Index
navigate(to, by) ==
  /\ navLog' = Append(navLog, [to |-> to, by |-> by])
  /\ route' = to
  /\ idx_view' = IF to = "/" THEN idx_view ELSE "unmounted"
  /\ idx_component' = IF to = "/" THEN idx_component ELSE NoValue

\* Index has just been mounted at "/": first render, effect scheduled
IndexMounted ==
  /\ auth_loading = TRUE
  /\ auth_user = NoValue
  /\ auth_profile = NoValue
  /\ activeTab = "dashboard"
  /\ route = "/"
  /\ idx_view = renderView(TRUE, NoValue)
  /\ idx_component = renderComponent(TRUE, NoValue, "dashboard")
  /\ idx_effectPending = TRUE
  /\ idx_signOutPending = 0
  /\ idx_lastClick = NoValue
  /\ navLog = <<>>

\* the router shows "/" again: a fresh Index with fresh hook state
mountIndex ==
  /\ route # "/"
  /\ Len(navLog) < MaxNavigations
  /\ route' = "/"
  /\ auth_loading' = TRUE
  /\ auth_user' = NoValue
  /\ auth_profile' = NoValue
  /\ activeTab' = "dashboard"
  /\ idx_view' = renderView(TRUE, NoValue)
  /\ idx_component' = renderComponent(TRUE, NoValue, "dashboard")
  /\ idx_effectPending' = TRUE
  /\ idx_lastClick' = NoValue
  /\ UNCHANGED <<idx_signOutPending, navLog>>
  /\ UNCHANGED nonIndexVars

\* useAuth reports a new state (session resolved, signed in or out, profile
\* fetched); Index renders again and the effect is scheduled when user or
\* loading changed
authStateChange ==
  /\ route = "/"
  /\ ~idx_effectPending
  /\ \E user \in Users \cup {NoValue}, hasProfile \in BOOLEAN :
       LET profile == IF hasProfile /\ user # NoValue THEN user ELSE NoValue
       IN  /\ <<FALSE, user, profile>> # <<auth_loading, auth_user, auth_profile>>
           /\ auth_loading' = FALSE
           /\ auth_user' = user
           /\ auth_profile' = profile
           /\ idx_view' = renderView(FALSE, user)
           /\ idx_component' = renderComponent(FALSE, user, activeTab)
           /\ idx_effectPending' = (<<FALSE, user>> # <<auth_loading, auth_user>>)
  /\ UNCHANGED <<activeTab, route, idx_signOutPending, idx_lastClick, navLog>>
  /\ UNCHANGED nonIndexVars

\* useEffect(() => { if (!loading && !user) navigate('/auth') }, [user, loading, navigate])
runEffect ==
  /\ route = "/"
  /\ idx_effectPending
  /\ idx_effectPending' = FALSE
  /\ IF ~auth_loading /\ auth_user = NoValue
     THEN navigate("/auth", "effect")
     ELSE UNCHANGED <<navLog, route, idx_view, idx_component>>
  /\ UNCHANGED <<authVars, activeTab, idx_signOutPending, idx_lastClick>>
  /\ UNCHANGED nonIndexVars

\* onClick={() => setActiveTab(tab.id)} of a tab button, which exists in the page view
clickTab ==
  /\ route = "/"
  /\ ~idx_effectPending
  /\ idx_view = "page"
  /\ \E i \in 1..Len(tabs) :
       /\ idx_lastClick' = tabs[i].id
       /\ activeTab' = tabs[i].id
       /\ idx_component' = renderComponent(auth_loading, auth_user, tabs[i].id)
  /\ UNCHANGED <<authVars, route, idx_view, idx_effectPending, idx_signOutPending, navLog>>
  /\ UNCHANGED nonIndexVars

handleSignOut_NoAwait ==
  /\ route = "/"
  /\ ~idx_effectPending
  /\ idx_view = "page"
  /\ idx_signOutPending < MaxPendingSignOuts
  /\ idx_signOutPending' = idx_signOutPending + 1
  /\ navigate("/auth", "handleSignOut")
  /\ UNCHANGED <<authVars, activeTab, idx_effectPending, idx_lastClick>>
  /\ UNCHANGED nonIndexVars

\* a click on the sign-out button: handleSignOut up to await signOut()
handleSignOut ==
  /\ route = "/"
  /\ ~idx_effectPending
  /\ idx_view = "page"
  /\ idx_signOutPending < MaxPendingSignOuts
  /\ idx_signOutPending' = idx_signOutPending + 1
  /\ UNCHANGED <<authVars, activeTab, route, idx_view, idx_component, idx_effectPending,
                 idx_lastClick, navLog>>
  /\ UNCHANGED nonIndexVars

\* signOut() resolved: handleSignOut continues with navigate('/auth'), whether
\* or not Index is still mounted
signOutResolved ==
  /\ idx_signOutPending > 0
  /\ ~idx_effectPending
  /\ idx_signOutPending' = idx_signOutPending - 1
  /\ navigate("/auth", "handleSignOut")
  /\ UNCHANGED <<authVars, activeTab, idx_effectPending, idx_lastClick>>
  /\ UNCHANGED nonIndexVars

\* signOut() rejected: handleSignOut ends there
signOutRejected ==
  /\ idx_signOutPending > 0
  /\ ~idx_effectPending
  /\ idx_signOutPending' = idx_signOutPending - 1
  /\ UNCHANGED <<authVars, activeTab, route, idx_view, idx_component, idx_effectPending,
                 idx_lastClick, navLog>>
  /\ UNCHANGED nonIndexVars

IndexNext ==
  \/ mountIndex
  \/ authStateChange
  \/ runEffect
  \/ clickTab
  \/ handleSignOut
  \/ signOutResolved
  \/ signOutRejected


(***************************************************************************)
(* The database: tables, constraints, row-level security, the sign-up      *)
(* trigger, and the requests clients make through the Supabase client.     *)
(* uid is auth.uid() of the request: a user id, or NoValue for anon.  A    *)
(* comparison with a NULL uid is NULL, which a policy treats as false.     *)
(***************************************************************************)
MaxIncidents == 2

\* role TEXT CHECK (role IN (...)); a NULL role passes the CHECK
profileRoles == {"researcher", "policy_maker", "ngo", "citizen"}

profiles_role_check(role) == role = NoValue \/ role \in profileRoles

\* status ... CHECK (status IN (...)) DEFAULT 'reported'
incidentStatuses == {"reported", "verified", "investigating", "resolved"}

\* "Users can update own profile" FOR UPDATE USING (auth.uid() = user_id)
profiles_update_using(uid, row) == uid # NoValue /\ uid = row.user_id

\* a policy FOR UPDATE without WITH CHECK applies its USING to the new row
profiles_update_check(uid, row) == profiles_update_using(uid, row)

\* "Users can insert own profile" FOR INSERT WITH CHECK (auth.uid() = user_id)
profiles_insert_check(uid, row) == uid # NoValue /\ uid = row.user_id

\* no policy FOR DELETE on profiles: with RLS enabled no row may be deleted
profiles_delete_using(uid, row) == FALSE

\* "Anyone can view pollution incidents" FOR SELECT USING (true)
incidents_select_using(uid, row) == TRUE

\* "Authenticated users can create incidents" FOR INSERT WITH CHECK (auth.uid() = user_id)
incidents_insert_check(uid, row) == uid # NoValue /\ uid = row.user_id

\* "Users can update own incidents" FOR UPDATE USING (auth.uid() = user_id)
incidents_update_using(uid, row) == uid # NoValue /\ uid = row.user_id

incidents_update_check_None(uid, row) == TRUE

\* a policy FOR UPDATE without WITH CHECK applies its USING to the new row
incidents_update_check(uid, row) == incidents_update_using(uid, row)

\* "Users can delete own incidents" FOR DELETE USING (auth.uid() = user_id)
incidents_delete_using(uid, row) == uid # NoValue /\ uid = row.user_id

userExists_Unchecked(id) == TRUE

\* user_id ... REFERENCES auth.users(id)
userExists(id) == db_users[id] = "active"

handle_new_user_role_NoDefault(metaRole) == metaRole

\* COALESCE(NEW.raw_user_meta_data ->> 'role', 'citizen')
handle_new_user_role(metaRole) == IF metaRole = NoValue THEN "citizen" ELSE metaRole

\* what a sign-up may carry as raw_user_meta_data ->> 'role': absent, a listed
\* role, or anything else
MetaRoles == {NoValue, "researcher", "admin"}

\* INSERT INTO public.policies ... VALUES (three sample rows)
samplePolicies == 1..3

MaxPolicies == 4

MaxMatches == 2

\* "Authenticated users can create policies" FOR INSERT WITH CHECK (auth.uid() IS NOT NULL)
policies_insert_check(uid, row) == uid # NoValue

\* no policy FOR DELETE on policies: with RLS enabled no row may be deleted
policies_delete_using(uid, row) == FALSE

\* "Authenticated users can create policy matches" FOR INSERT WITH CHECK (auth.uid() IS NOT NULL)
matches_insert_check(uid, row) == uid # NoValue

\* no policy FOR DELETE on policy_matches
matches_delete_using(uid, row) == FALSE

\* incident_id ... REFERENCES public.pollution_incidents(id)
incidentExists(id) == \E r \in db_incidents : r.id = id

\* policy_id ... REFERENCES public.policies(id)
policyExists(id) == id \in db_policies

\* UNIQUE(incident_id, policy_id)
matches_unique(row) == ~BagIn(row, db_matches)

matchesOnDelete_NoCascade(incidents, policies) == db_matches

\* incident_id ... ON DELETE CASCADE, policy_id ... ON DELETE CASCADE: the
\* policy_matches rows left when `incidents` and `policies` are the rows left
\* in their tables
matchesOnDelete(incidents, policies) ==
  LET kept == {m \in BagToSet(db_matches) :
                 /\ \E r \in incidents : r.id = m.incident_id
                 /\ m.policy_id \in policies}
  IN  [m \in kept |-> db_matches[m]]

\* the rows a SELECT by uid returns
selectIncidents(uid) == {row \in db_incidents : incidents_select_using(uid, row)}

op(kind, actor, arg, ok) == [kind |-> kind, actor |-> actor, arg |-> arg, ok |-> ok]

DbEmpty ==
  /\ db_users = [u \in Users |-> "unused"]
  /\ db_profiles = <<>>
  /\ db_incidents = {}
  /\ db_nextIncident = 1
  /\ db_policies = samplePolicies
  /\ db_matches = EmptyBag
  /\ db_lastOp = op("none", NoValue, NoValue, TRUE)

\* INSERT INTO auth.users, with the AFTER INSERT trigger on_auth_user_created
\* (handle_new_user) in the same transaction: a profile row that violates a
\* constraint aborts the sign-up
signUp ==
  \E u \in Users, metaRole \in MetaRoles :
    /\ db_users[u] = "unused"
    /\ LET row == [user_id |-> u, role |-> handle_new_user_role(metaRole)]
           ok == /\ profiles_role_check(row.role)
                 /\ \A i \in 1..Len(db_profiles) : db_profiles[i].user_id # u
       IN  /\ db_lastOp' = op("signUp", u, metaRole, ok)
           /\ IF ok
              THEN /\ db_users' = [db_users EXCEPT ![u] = "active"]
                   /\ db_profiles' = Append(db_profiles, row)
              ELSE UNCHANGED <<db_users, db_profiles>>
    /\ UNCHANGED <<db_incidents, db_nextIncident, db_policies, db_matches>>
    /\ UNCHANGED nonDbVars

\* DELETE FROM auth.users (an admin operation): profiles.user_id and
\* pollution_incidents.user_id are ON DELETE CASCADE, and the deleted incidents
\* cascade to policy_matches; the second foreign key on
\* pollution_incidents.user_id (NO ACTION) is checked after the cascade
deleteUser ==
  \E u \in Users :
    /\ db_users[u] = "active"
    /\ db_users' = [db_users EXCEPT ![u] = "deleted"]
    /\ db_profiles' = SelectSeq(db_profiles, LAMBDA r : r.user_id # u)
    /\ db_incidents' = {r \in db_incidents : r.user_id # u}
    /\ db_matches' = matchesOnDelete(db_incidents', db_policies)
    /\ db_lastOp' = op("deleteUser", u,
                       IF db_matches' = db_matches THEN NoValue ELSE "cascaded", TRUE)
    /\ UNCHANGED <<db_nextIncident, db_policies>>
    /\ UNCHANGED nonDbVars

\* createIncident: insert([incident]) with the caller's user_id
createIncident ==
  \E uid \in Users \cup {NoValue}, user_id \in Users :
    /\ db_nextIncident <= MaxIncidents
    /\ LET row == [id |-> db_nextIncident, user_id |-> user_id, status |-> "reported"]
           ok == incidents_insert_check(uid, row) /\ userExists(user_id)
       IN  /\ db_lastOp' = op("createIncident", uid, NoValue, ok)
           /\ IF ok
              THEN /\ db_incidents' = db_incidents \cup {row}
                   /\ db_nextIncident' = db_nextIncident + 1
              ELSE UNCHANGED <<db_incidents, db_nextIncident>>
    /\ UNCHANGED <<db_users, db_profiles, db_policies, db_matches>>
    /\ UNCHANGED nonDbVars

\* updateIncident: update(updates).eq('id', id); updates may name any columns,
\* here user_id and status
updateIncident ==
  \E uid \in Users \cup {NoValue}, id \in 1..MaxIncidents,
     user_id \in Users, status \in {"reported", "resolved"} :
    /\ LET old == {r \in db_incidents : r.id = id /\ incidents_update_using(uid, r)}
           new == [id |-> id, user_id |-> user_id, status |-> status]
           ok == /\ old # {}
                 /\ incidents_update_check(uid, new)
                 /\ userExists(user_id)
                 /\ status \in incidentStatuses
       IN  /\ db_lastOp' = op("updateIncident", uid, NoValue, ok)
           /\ db_incidents' = IF ok THEN (db_incidents \ old) \cup {new} ELSE db_incidents
    /\ UNCHANGED <<db_users, db_profiles, db_nextIncident, db_policies, db_matches>>
    /\ UNCHANGED nonDbVars

\* deleteIncident: delete().eq('id', id); rows the policy hides are not
\* deleted; the deleted incident's policy_matches rows go with it
deleteIncident ==
  \E uid \in Users \cup {NoValue}, id \in 1..MaxIncidents :
    /\ LET old == {r \in db_incidents : r.id = id /\ incidents_delete_using(uid, r)}
       IN  /\ db_lastOp' = op("deleteIncident", uid, NoValue, old # {})
           /\ db_incidents' = db_incidents \ old
    /\ db_matches' = matchesOnDelete(db_incidents', db_policies)
    /\ UNCHANGED <<db_users, db_profiles, db_nextIncident, db_policies>>
    /\ UNCHANGED nonDbVars

\* a client INSERT INTO profiles
insertProfile ==
  \E uid \in Users \cup {NoValue}, user_id \in Users, role \in {NoValue, "ngo", "admin"} :
    /\ LET row == [user_id |-> user_id, role |-> role]
           ok == /\ profiles_insert_check(uid, row)
                 /\ profiles_role_check(role)
                 /\ userExists(user_id)
                 /\ \A i \in 1..Len(db_profiles) : db_profiles[i].user_id # user_id
       IN  /\ db_lastOp' = op("insertProfile", uid, NoValue, ok)
           /\ db_profiles' = IF ok THEN Append(db_profiles, row) ELSE db_profiles
    /\ UNCHANGED <<db_users, db_incidents, db_nextIncident, db_policies, db_matches>>
    /\ UNCHANGED nonDbVars

\* a client UPDATE of the profile rows of user `target`
updateProfile ==
  \E uid \in Users \cup {NoValue}, target \in Users, user_id \in Users,
     role \in {NoValue, "ngo", "admin"} :
    /\ LET hit == {i \in 1..Len(db_profiles) :
                     db_profiles[i].user_id = target /\ profiles_update_using(uid, db_profiles[i])}
           new == [user_id |-> user_id, role |-> role]
           ok == /\ hit # {}
                 /\ profiles_update_check(uid, new)
                 /\ profiles_role_check(role)
                 /\ userExists(user_id)
                 /\ \A i \in (1..Len(db_profiles)) \ hit : db_profiles[i].user_id # user_id
       IN  /\ db_lastOp' = op("updateProfile", uid, NoValue, ok)
           /\ db_profiles' = IF ok
                             THEN [i \in 1..Len(db_profiles) |->
                                     IF i \in hit THEN new ELSE db_profiles[i]]
                             ELSE db_profiles
    /\ UNCHANGED <<db_users, db_incidents, db_nextIncident, db_policies, db_matches>>
    /\ UNCHANGED nonDbVars

\* a client DELETE of the profile rows of user `target`
deleteProfile ==
  \E uid \in Users \cup {NoValue}, target \in Users :
    /\ LET hit == {i \in 1..Len(db_profiles) :
                     db_profiles[i].user_id = target /\ profiles_delete_using(uid, db_profiles[i])}
       IN  /\ db_lastOp' = op("deleteProfile", uid, NoValue, hit # {})
           /\ db_profiles' = SelectSeq(db_profiles,
                               LAMBDA r : ~(r.user_id = target /\ profiles_delete_using(uid, r)))
    /\ UNCHANGED <<db_users, db_incidents, db_nextIncident, db_policies, db_matches>>
    /\ UNCHANGED nonDbVars

\* a client INSERT INTO policies
insertPolicy ==
  \E uid \in {"u1", NoValue} :
    /\ Cardinality(db_policies) < MaxPolicies
    /\ LET row == [id |-> Cardinality(db_policies) + 1]
           ok == policies_insert_check(uid, row)
       IN  /\ db_lastOp' = op("insertPolicy", uid, NoValue, ok)
           /\ db_policies' = IF ok THEN db_policies \cup {row.id} ELSE db_policies
    /\ UNCHANGED <<db_users, db_profiles, db_incidents, db_nextIncident, db_matches>>
    /\ UNCHANGED nonDbVars

\* a client DELETE of the policies row `id`, which would take its
\* policy_matches rows with it
deletePolicy ==
  \E uid \in {"u1", NoValue}, id \in 1..MaxPolicies :
    /\ LET old == {p \in db_policies : p = id /\ policies_delete_using(uid, [id |-> p])}
       IN  /\ db_lastOp' = op("deletePolicy", uid, NoValue, old # {})
           /\ db_policies' = db_policies \ old
    /\ db_matches' = matchesOnDelete(db_incidents, db_policies')
    /\ UNCHANGED <<db_users, db_profiles, db_incidents, db_nextIncident>>
    /\ UNCHANGED nonDbVars

\* a client INSERT INTO policy_matches
insertPolicyMatch ==
  \E uid \in {"u1", NoValue}, incident_id \in 1..MaxIncidents, policy_id \in {1, MaxPolicies} :
    /\ BagCardinality(db_matches) < MaxMatches
    /\ LET row == [incident_id |-> incident_id, policy_id |-> policy_id]
           ok == /\ matches_insert_check(uid, row)
                 /\ incidentExists(incident_id)
                 /\ policyExists(policy_id)
                 /\ matches_unique(row)
       IN  /\ db_lastOp' = op("insertMatch", uid, NoValue, ok)
           /\ db_matches' = IF ok THEN db_matches (+) SetToBag({row}) ELSE db_matches
    /\ UNCHANGED <<db_users, db_profiles, db_incidents, db_nextIncident, db_policies>>
    /\ UNCHANGED nonDbVars

\* a client DELETE of the policy_matches rows of incident `incident_id`
deletePolicyMatch ==
  \E uid \in {"u1", NoValue}, incident_id \in 1..MaxIncidents :
    /\ LET hit == {m \in BagToSet(db_matches) :
                     m.incident_id = incident_id /\ matches_delete_using(uid, m)}
       IN  /\ db_lastOp' = op("deleteMatch", uid, NoValue, hit # {})
           /\ db_matches' = [m \in BagToSet(db_matches) \ hit |-> db_matches[m]]
    /\ UNCHANGED <<db_users, db_profiles, db_incidents, db_nextIncident, db_policies>>
    /\ UNCHANGED nonDbVars

DbNext ==
  \/ signUp
  \/ deleteUser
  \/ createIncident
  \/ updateIncident
  \/ deleteIncident
  \/ insertProfile
  \/ updateProfile
  \/ deleteProfile

\* the requests that insert or delete rows of the tables policy_matches
\* depends on
MatchesNext ==
  \/ signUp
  \/ deleteUser
  \/ createIncident
  \/ deleteIncident
  \/ insertPolicy
  \/ deletePolicy
  \/ insertPolicyMatch
  \/ deletePolicyMatch

(***************************************************************************)
(* usePollutionData.  The backend table is abstracted to a version number  *)
(* (hk_table) that every accepted change increments; the data a query      *)
(* returns is the version it saw.  A query or mutation is answered by the  *)
(* backend in one step and its continuation runs in the client in a later  *)
(* one, so responses may arrive in any order.                              *)
(***************************************************************************)
MaxFetches == 3
MaxCalls == 1
MaxChanges == 1

\* err.message of a failed request
errorMessage(request) == "failed: " \o request

\* what the awaited mutation resolves with: data, or undefined for deleteIncident
mutationResult(kind) == IF kind = "delete" THEN "undefined" ELSE "data"

HookRendered ==
  /\ hk_phase = "rendered"
  /\ hk_channel = "none"
  /\ hk_incidents = 0
  /\ hk_loading = TRUE
  /\ hk_error = NoValue
  /\ hk_table = 0
  /\ hk_events = 0
  /\ hk_delivered = 0
  /\ hk_fetches = <<>>
  /\ hk_calls = <<>>

\* fetchIncidents up to its await: setLoading(true) and the select is sent
fetchIncidents(origin, caller) ==
  /\ hk_loading' = TRUE
  /\ hk_fetches' = Append(hk_fetches,
       [origin |-> origin, caller |-> caller, st |-> "sent", out |-> "", data |-> 0])

\* an accepted change of pollution_incidents: the realtime server emits an
\* event to the channel once it is joined
tableChange ==
  /\ hk_table' = hk_table + 1
  /\ hk_events' = IF hk_channel = "subscribed" THEN hk_events + 1 ELSE hk_events

\* the effect of the first render: fetchIncidents(), channel(...).on(...).subscribe()
useEffectMount ==
  /\ hk_phase = "rendered"
  /\ Len(hk_fetches) < MaxFetches
  /\ hk_phase' = "mounted"
  /\ fetchIncidents("mount", 0)
  /\ hk_channel' = "joining"
  /\ UNCHANGED <<hk_incidents, hk_error, hk_table, hk_events, hk_delivered, hk_calls>>
  /\ UNCHANGED nonHookVars

\* the realtime server acknowledged the subscription
channelJoined ==
  /\ hk_channel = "joining"
  /\ hk_channel' = "subscribed"
  /\ UNCHANGED <<hk_phase, hk_incidents, hk_loading, hk_error, hk_table, hk_events,
                 hk_delivered, hk_fetches, hk_calls>>
  /\ UNCHANGED nonHookVars

\* the effect's cleanup at unmount: supabase.removeChannel(channel); an event
\* still on its way finds no channel and is never delivered
useEffectCleanup ==
  /\ hk_phase = "mounted"
  /\ hk_phase' = "unmounted"
  /\ hk_channel' = "removed"
  /\ UNCHANGED <<hk_incidents, hk_loading, hk_error, hk_table, hk_events, hk_delivered,
                 hk_fetches, hk_calls>>
  /\ UNCHANGED nonHookVars

\* another client changed pollution_incidents
otherClientChange ==
  /\ hk_table < MaxChanges
  /\ tableChange
  /\ UNCHANGED <<hk_phase, hk_channel, hk_incidents, hk_loading, hk_error,
                 hk_delivered, hk_fetches, hk_calls>>
  /\ UNCHANGED nonHookVars

\* a callback that ignores the event
postgresChange_NoFetch ==
  /\ hk_channel = "subscribed"
  /\ hk_events > 0
  /\ hk_events' = hk_events - 1
  /\ hk_delivered' = hk_delivered + 1
  /\ UNCHANGED <<hk_phase, hk_channel, hk_incidents, hk_loading, hk_error, hk_table,
                 hk_fetches, hk_calls>>
  /\ UNCHANGED nonHookVars

\* the channel's postgres_changes callback: () => { fetchIncidents(); }
postgresChange ==
  /\ hk_channel = "subscribed"
  /\ hk_events > 0
  /\ Len(hk_fetches) < MaxFetches
  /\ hk_events' = hk_events - 1
  /\ hk_delivered' = hk_delivered + 1
  /\ fetchIncidents("event", 0)
  /\ UNCHANGED <<hk_phase, hk_channel, hk_incidents, hk_error, hk_table, hk_calls>>
  /\ UNCHANGED nonHookVars

\* the backend answers a select: { data, error }
fetchAnswered ==
  \E i \in 1..Len(hk_fetches), ok \in BOOLEAN :
    /\ hk_fetches[i].st = "sent"
    /\ hk_fetches' = [hk_fetches EXCEPT
         ![i].st = "answered",
         ![i].out = IF ok THEN "ok" ELSE "err",
         ![i].data = IF ok THEN hk_table ELSE 0]
    /\ UNCHANGED <<hk_phase, hk_channel, hk_incidents, hk_loading, hk_error, hk_table,
                   hk_events, hk_delivered, hk_calls>>
    /\ UNCHANGED nonHookVars

\* fetchIncidents after its await: setIncidents or the catch, then the finally;
\* the promise always fulfils, and the mutation that awaits it (caller, 0 when
\* none) returns
fetchSettled ==
  \E i \in 1..Len(hk_fetches) :
    /\ hk_fetches[i].st = "answered"
    /\ hk_fetches' = [hk_fetches EXCEPT ![i].st = "done"]
    /\ hk_incidents' = IF hk_fetches[i].out = "ok" THEN hk_fetches[i].data ELSE hk_incidents
    /\ hk_error' = IF hk_fetches[i].out = "err" THEN errorMessage("select") ELSE hk_error
    /\ hk_loading' = FALSE
    /\ LET c == hk_fetches[i].caller
       IN  hk_calls' = IF c = 0 THEN hk_calls
                       ELSE [hk_calls EXCEPT ![c].st = "resolved",
                                             ![c].result = mutationResult(hk_calls[c].kind)]
    /\ UNCHANGED <<hk_phase, hk_channel, hk_table, hk_events, hk_delivered>>
    /\ UNCHANGED nonHookVars

\* createIncident / updateIncident / deleteIncident up to the first await
callMutation ==
  \E kind \in {"insert", "update", "delete"} :
    /\ hk_phase = "mounted"
    /\ Len(hk_calls) < MaxCalls
    /\ hk_calls' = Append(hk_calls,
         [kind |-> kind, st |-> "sent", ackedAt |-> 0, refresh |-> 0, result |-> NoValue])
    /\ UNCHANGED <<hk_phase, hk_channel, hk_incidents, hk_loading, hk_error, hk_table,
                   hk_events, hk_delivered, hk_fetches>>
    /\ UNCHANGED nonHookVars

\* the backend accepts the mutation; a delete whose filter matches no visible
\* row is accepted without changing the table
backendApplied ==
  \E c \in 1..Len(hk_calls), changed \in BOOLEAN :
    /\ hk_calls[c].st = "sent"
    /\ changed \/ hk_calls[c].kind = "delete"
    /\ hk_calls' = [hk_calls EXCEPT ![c].st = "applied"]
    /\ IF changed
         THEN hk_table < MaxChanges /\ tableChange
         ELSE UNCHANGED <<hk_table, hk_events>>
    /\ UNCHANGED <<hk_phase, hk_channel, hk_incidents, hk_loading, hk_error,
                   hk_delivered, hk_fetches>>
    /\ UNCHANGED nonHookVars

\* a mutation that starts the refresh without awaiting it and returns at once
mutationAcked_NoAwait ==
  \E c \in 1..Len(hk_calls) :
    /\ hk_calls[c].st = "applied"
    /\ Len(hk_fetches) < MaxFetches
    /\ hk_calls' = [hk_calls EXCEPT ![c].st = "resolved",
                                    ![c].ackedAt = Len(hk_fetches),
                                    ![c].refresh = Len(hk_fetches) + 1,
                                    ![c].result = mutationResult(hk_calls[c].kind)]
    /\ fetchIncidents("refresh", 0)
    /\ UNCHANGED <<hk_phase, hk_channel, hk_incidents, hk_error, hk_table,
                   hk_events, hk_delivered>>
    /\ UNCHANGED nonHookVars

\* the mutation after its await, error === null: await fetchIncidents()
mutationAcked ==
  \E c \in 1..Len(hk_calls) :
    /\ hk_calls[c].st = "applied"
    /\ Len(hk_fetches) < MaxFetches
    /\ hk_calls' = [hk_calls EXCEPT ![c].st = "refreshing",
                                    ![c].ackedAt = Len(hk_fetches),
                                    ![c].refresh = Len(hk_fetches) + 1]
    /\ fetchIncidents("refresh", c)
    /\ UNCHANGED <<hk_phase, hk_channel, hk_incidents, hk_error, hk_table,
                   hk_events, hk_delivered>>
    /\ UNCHANGED nonHookVars

\* a catch that also refreshed the list
mutationRejected_Refresh ==
  \E c \in 1..Len(hk_calls) :
    /\ hk_calls[c].st = "sent"
    /\ Len(hk_fetches) < MaxFetches
    /\ hk_calls' = [hk_calls EXCEPT ![c].st = "rejected",
                                    ![c].result = errorMessage(hk_calls[c].kind)]
    /\ hk_error' = errorMessage(hk_calls[c].kind)
    /\ fetchIncidents("refresh", 0)
    /\ UNCHANGED <<hk_phase, hk_channel, hk_incidents, hk_table,
                   hk_events, hk_delivered>>
    /\ UNCHANGED nonHookVars

\* the mutation after its await, error !== null: the catch sets error and rethrows
mutationRejected ==
  \E c \in 1..Len(hk_calls) :
    /\ hk_calls[c].st = "sent"
    /\ hk_calls' = [hk_calls EXCEPT ![c].st = "rejected",
                                    ![c].result = errorMessage(hk_calls[c].kind)]
    /\ hk_error' = errorMessage(hk_calls[c].kind)
    /\ UNCHANGED <<hk_phase, hk_channel, hk_incidents, hk_loading, hk_table,
                   hk_events, hk_delivered, hk_fetches>>
    /\ UNCHANGED nonHookVars

HookNext ==
  \/ useEffectMount
  \/ channelJoined
  \/ useEffectCleanup
  \/ otherClientChange
  \/ postgresChange
  \/ fetchAnswered
  \/ fetchSettled
  \/ callMutation
  \/ backendApplied
  \/ mutationAcked
  \/ mutationRejected

(***************************************************************************)
(* The module-level model caches of mlAnalysis and their loaders.  A       *)
(* pipeline construction is awaited, so other calls run between its start  *)
(* and its end.  A cache variable holds 0 for null, else the index (in     *)
(* ld_pipelines) of the construction whose result was assigned to it.      *)
(***************************************************************************)
MaxLoads == 3

Models == {"image", "text", "sentiment"}

\* the message of the error a loader call rejects with when the CPU
\* construction fails too
loadError(model) ==
  IF mlVersion = "keyword" /\ model = "text"
    THEN "Unable to load text analysis model"
    ELSE IF mlVersion = "keyword" /\ model = "sentiment"
           THEN "Unable to load sentiment analysis model"
           ELSE "pipeline error"

LoaderEmpty ==
  /\ ld_cache = [m \in Models |-> 0]
  /\ ld_pipelines = <<>>
  /\ ld_calls = <<>>

\* getImageClassifier / getTextClassifier up to the first await (or to the
\* return when the cache is filled)
getClassifier(model) ==
  IF ld_cache[model] # 0
    THEN /\ ld_calls' = Append(ld_calls,
              [model |-> model, st |-> "returned", pipeline |-> 0,
               result |-> ld_cache[model], error |-> ""])
         /\ UNCHANGED ld_pipelines
    ELSE /\ ld_pipelines' = Append(ld_pipelines,
              [model |-> model, device |-> "webgpu", st |-> "pending", cached |-> FALSE])
         /\ ld_calls' = Append(ld_calls,
              [model |-> model, st |-> "webgpu", pipeline |-> Len(ld_pipelines) + 1,
               result |-> 0, error |-> ""])

\* analyzeImage / analyzeText is called and reaches its loader
callLoader ==
  \E model \in Models :
    /\ Len(ld_calls) < MaxLoads
    /\ getClassifier(model)
    /\ UNCHANGED ld_cache
    /\ UNCHANGED nonLoaderVars

\* the awaited construction of call c fulfils: the cache variable is assigned
\* and returned
pipelineBuilt(c) ==
  LET p == ld_calls[c].pipeline
  IN  /\ ld_pipelines' = [ld_pipelines EXCEPT ![p].st = "ok"]
      /\ ld_cache' = [ld_cache EXCEPT ![ld_calls[c].model] = p]
      /\ ld_calls' = [ld_calls EXCEPT ![c].st = "returned", ![c].result = p]

\* the WebGPU construction fulfils
webgpuBuilt ==
  \E c \in 1..Len(ld_calls) :
    /\ ld_calls[c].st = "webgpu"
    /\ pipelineBuilt(c)
    /\ UNCHANGED nonLoaderVars

\* the WebGPU construction rejects: the catch starts the CPU construction
webgpuFailed ==
  \E c \in 1..Len(ld_calls) :
    /\ ld_calls[c].st = "webgpu"
    /\ ld_pipelines' = Append([ld_pipelines EXCEPT ![ld_calls[c].pipeline].st = "failed"],
         [model |-> ld_calls[c].model, device |-> "cpu", st |-> "pending",
          cached |-> ld_cache[ld_calls[c].model] # 0])
    /\ ld_calls' = [ld_calls EXCEPT ![c].st = "cpu", ![c].pipeline = Len(ld_pipelines) + 1]
    /\ UNCHANGED ld_cache
    /\ UNCHANGED nonLoaderVars

\* the CPU construction fulfils
cpuBuilt ==
  \E c \in 1..Len(ld_calls) :
    /\ ld_calls[c].st = "cpu"
    /\ pipelineBuilt(c)
    /\ UNCHANGED nonLoaderVars

\* the CPU construction rejects too: nothing is assigned, the call rejects
cpuFailed ==
  \E c \in 1..Len(ld_calls) :
    /\ ld_calls[c].st = "cpu"
    /\ ld_pipelines' = [ld_pipelines EXCEPT ![ld_calls[c].pipeline].st = "failed"]
    /\ ld_calls' = [ld_calls EXCEPT ![c].st = "failed",
                                    ![c].error = loadError(ld_calls[c].model)]
    /\ UNCHANGED ld_cache
    /\ UNCHANGED nonLoaderVars

LoaderNext ==
  \/ callLoader
  \/ webgpuBuilt
  \/ webgpuFailed
  \/ cpuBuilt
  \/ cpuFailed

(***************************************************************************)
(* PolicyAnalyzer.  performAnalysis with the analyzeText it awaits written *)
(* out: analyzeText's onProgress is setAnalysisProgress, its loader calls  *)
(* go through the module caches above.  The Analyze button is disabled     *)
(* while isAnalyzing, so a mounted PolicyAnalyzer has one run at a time.   *)
(***************************************************************************)
NoMatches == <<>>

\* what the user may type into the query input
Queries == {
  <<>>,
  <<"O", "i", "l", " ", "l", "e", "a", "k">>
  }

\* the files the user may pick
Docs == {"policy.txt", "policy.pdf"}

\* file.type === 'text/plain'
isPlainText(file) == file = "policy.txt"

\* file.name
docName(file) ==
  IF file = "policy.txt"
    THEN <<"p", "o", "l", "i", "c", "y", ".", "t", "x", "t">>
    ELSE <<"p", "o", "l", "i", "c", "y", ".", "p", "d", "f">>

\* what FileReader.readAsText delivers for the file
docContent(file) ==
  <<"P", "l", "a", "s", "t", "i", "c", " ", "b", "o", "t", "t", "l", "e",
  " ", "a", "n", "d", " ", "b", "a", "g", " ", "d", "e", "b", "r", "i",
  "s", ",", " ", "m", "i", "c", "r", "o", "p", "l", "a", "s", "t", "i",
  "c">>

\* extractTextFromFile(file), when it resolves: the content of a plain text
\* file, else a placeholder naming the file
extractedText(file) ==
  IF isPlainText(file) THEN docContent(file)
  ELSE
    <<"D", "o", "c", "u", "m", "e", "n", "t", ":", " ">>
    \o docName(file) \o
    <<" ", "-", " ", "P", "l", "e", "a", "s", "e", " ", "u", "s", "e", " ",
    "p", "l", "a", "i", "n", " ", "t", "e", "x", "t", " ", "f", "i", "l",
    "e", "s", " ", "f", "o", "r", " ", "f", "u", "l", "l", " ", "a", "n",
    "a", "l", "y", "s", "i", "s", ".">>

\* textToAnalyze once the document is read
textToAnalyze(query, extracted) ==
  IF query # <<>> THEN query \o <<"\n", "\n">> \o extracted ELSE extracted

\* labels[0] and scores[0] the zero-shot classifier may answer with
ZeroShotOutputs == {
  [label |-> pollutionLabels[1], score |-> 97],
  [label |-> pollutionLabels[4], score |-> 63]
  }

\* the getXxx() calls analyzeText makes before it classifies
loadsPerRun == IF mlVersion = "keyword" THEN 1 ELSE 2

AnalyzerIdle ==
  /\ pa_query = <<>>
  /\ pa_doc = NoValue
  /\ pa_isAnalyzing = FALSE
  /\ pa_analysisProgress = 0
  /\ pa_policyMatches = NoMatches
  /\ pa_toast = [title |-> "", description |-> ""]
  /\ pa_pc = "idle"
  /\ pa_text = <<>>
  /\ pa_call = 0
  /\ pa_progressLog = <<>>
  /\ pa_before = NoMatches
  /\ pa_outcome = [result |-> "", at |-> ""]
  /\ pa_lastHandler = ""

\* onChange of the query input
setAnalysisQuery ==
  \E q \in Queries :
    /\ pa_query' = q
    /\ pa_lastHandler' = "setAnalysisQuery"
    /\ UNCHANGED <<pa_doc, pa_isAnalyzing, pa_analysisProgress, pa_policyMatches, pa_toast,
                   pa_pc, pa_text, pa_call, pa_progressLog, pa_before, pa_outcome>>
    /\ UNCHANGED loaderVars
    /\ UNCHANGED nonAnalyzerVars

handleDocumentUpload ==
  \E file \in Docs :
    /\ pa_doc' = file
    /\ pa_toast' = [title |-> "Document Uploaded", description |-> file \o " ready for analysis"]
    /\ pa_lastHandler' = "handleDocumentUpload"
    /\ UNCHANGED <<pa_query, pa_isAnalyzing, pa_analysisProgress, pa_policyMatches,
                   pa_pc, pa_text, pa_call, pa_progressLog, pa_before, pa_outcome>>
    /\ UNCHANGED loaderVars
    /\ UNCHANGED nonAnalyzerVars

\* a catch that also dropped the displayed matches
analysisFailed_ClearsMatches(message, at) ==
  /\ pa_toast' = [title |-> "Analysis Failed", description |-> message]
  /\ pa_isAnalyzing' = FALSE
  /\ pa_policyMatches' = NoMatches
  /\ pa_pc' = "idle"
  /\ pa_outcome' = [result |-> "failed", at |-> at]
  /\ UNCHANGED <<pa_query, pa_doc, pa_analysisProgress, pa_text, pa_call,
                 pa_progressLog, pa_before, pa_lastHandler>>

\* the catch and the finally of performAnalysis
analysisFailed(message, at) ==
  /\ pa_toast' = [title |-> "Analysis Failed", description |-> message]
  /\ pa_isAnalyzing' = FALSE
  /\ pa_pc' = "idle"
  /\ pa_outcome' = [result |-> "failed", at |-> at]
  /\ UNCHANGED <<pa_query, pa_doc, pa_analysisProgress, pa_policyMatches, pa_text, pa_call,
                 pa_progressLog, pa_before, pa_lastHandler>>

\* analyzeText returned: setPolicyMatches, the toast, the finally
analysisSucceeded(results) ==
  /\ pa_policyMatches' = results
  /\ pa_toast' = [title |-> "Analysis Complete",
                  description |-> "Found " \o ToString(Len(results))
                                    \o " relevant policy matches using AI analysis."]
  /\ pa_isAnalyzing' = FALSE
  /\ pa_pc' = "idle"
  /\ pa_outcome' = [result |-> "ok", at |-> ""]

\* analyzeText up to its first await: onProgress(20), getTextClassifier()
startAnalyzeText(txt) ==
  /\ pa_text' = txt
  /\ pa_analysisProgress' = 20
  /\ pa_progressLog' = Append(pa_progressLog, 20)
  /\ getClassifier("text")
  /\ pa_call' = Len(ld_calls) + 1
  /\ pa_pc' = "loading"
  /\ UNCHANGED ld_cache

\* the Analyze button without the input check
performAnalysis_NoCheck ==
  /\ ~pa_isAnalyzing
  /\ Len(ld_calls) + loadsPerRun <= MaxLoads
  /\ pa_lastHandler' = "performAnalysis"
  /\ pa_isAnalyzing' = TRUE
  /\ pa_analysisProgress' = 0
  /\ pa_progressLog' = <<0>>
  /\ pa_before' = pa_policyMatches
  /\ pa_outcome' = [result |-> "", at |-> ""]
  /\ pa_pc' = "importing"
  /\ UNCHANGED <<pa_query, pa_doc, pa_policyMatches, pa_text, pa_call, pa_toast>>
  /\ UNCHANGED loaderVars
  /\ UNCHANGED nonAnalyzerVars

\* the Analyze button: performAnalysis up to its first await
performAnalysis ==
  /\ ~pa_isAnalyzing
  /\ pa_lastHandler' = "performAnalysis"
  /\ IF pa_query = <<>> /\ pa_doc = NoValue
       THEN /\ pa_toast' = [title |-> "Input Required",
                            description |-> "Please enter a query or upload a document to analyze"]
            /\ UNCHANGED <<pa_isAnalyzing, pa_analysisProgress, pa_progressLog, pa_before,
                           pa_outcome, pa_pc>>
       ELSE /\ Len(ld_calls) + loadsPerRun <= MaxLoads
            /\ pa_isAnalyzing' = TRUE
            /\ pa_analysisProgress' = 0
            /\ pa_progressLog' = <<0>>
            /\ pa_before' = pa_policyMatches
            /\ pa_outcome' = [result |-> "", at |-> ""]
            /\ pa_pc' = "importing"
            /\ UNCHANGED pa_toast
  /\ UNCHANGED <<pa_query, pa_doc, pa_policyMatches, pa_text, pa_call>>
  /\ UNCHANGED loaderVars
  /\ UNCHANGED nonAnalyzerVars

\* import('@/utils/mlAnalysis') fulfils: extractTextFromFile is called when a
\* document is uploaded, else analyzeText(analysisQuery, ...)
importResolved ==
  /\ pa_pc = "importing"
  /\ IF pa_doc # NoValue
       THEN /\ pa_pc' = "extracting"
            /\ UNCHANGED <<pa_analysisProgress, pa_text, pa_call, pa_progressLog>>
            /\ UNCHANGED loaderVars
       ELSE startAnalyzeText(pa_query)
  /\ UNCHANGED <<pa_query, pa_doc, pa_isAnalyzing, pa_policyMatches, pa_toast, pa_before,
                 pa_outcome, pa_lastHandler>>
  /\ UNCHANGED nonAnalyzerVars

importRejected ==
  /\ pa_pc = "importing"
  /\ analysisFailed("import failed", "import")
  /\ UNCHANGED loaderVars
  /\ UNCHANGED nonAnalyzerVars

\* extractTextFromFile fulfils: analyzeText(textToAnalyze, ...) is called
extractResolved ==
  /\ pa_pc = "extracting"
  /\ startAnalyzeText(textToAnalyze(pa_query, extractedText(pa_doc)))
  /\ UNCHANGED <<pa_query, pa_doc, pa_isAnalyzing, pa_policyMatches, pa_toast, pa_before,
                 pa_outcome, pa_lastHandler>>
  /\ UNCHANGED nonAnalyzerVars

\* reader.onerror
extractRejected ==
  /\ pa_pc = "extracting"
  /\ isPlainText(pa_doc)
  /\ analysisFailed("Failed to read file", "extract")
  /\ UNCHANGED loaderVars
  /\ UNCHANGED nonAnalyzerVars

\* getTextClassifier() fulfilled: the keyword revision reports 40 and calls the
\* classifier, the zero-shot revision goes on to getSentimentAnalyzer()
textClassifierLoaded ==
  /\ pa_pc = "loading"
  /\ ld_calls[pa_call].st = "returned"
  /\ IF mlVersion = "keyword"
       THEN /\ pa_analysisProgress' = 40
            /\ pa_progressLog' = Append(pa_progressLog, 40)
            /\ pa_pc' = "classifying"
            /\ UNCHANGED <<pa_call, loaderVars>>
       ELSE /\ getClassifier("sentiment")
            /\ pa_call' = Len(ld_calls) + 1
            /\ pa_pc' = "loadingSentiment"
            /\ UNCHANGED <<pa_analysisProgress, pa_progressLog, ld_cache>>
  /\ UNCHANGED <<pa_query, pa_doc, pa_isAnalyzing, pa_policyMatches, pa_toast, pa_text,
                 pa_before, pa_outcome, pa_lastHandler>>
  /\ UNCHANGED nonAnalyzerVars

\* zero-shot revision: getSentimentAnalyzer() fulfilled: onProgress(40) and
\* the classifier is called
sentimentAnalyzerLoaded ==
  /\ pa_pc = "loadingSentiment"
  /\ ld_calls[pa_call].st = "returned"
  /\ pa_analysisProgress' = 40
  /\ pa_progressLog' = Append(pa_progressLog, 40)
  /\ pa_pc' = "classifying"
  /\ UNCHANGED <<pa_query, pa_doc, pa_isAnalyzing, pa_policyMatches, pa_toast, pa_text,
                 pa_call, pa_before, pa_outcome, pa_lastHandler>>
  /\ UNCHANGED loaderVars
  /\ UNCHANGED nonAnalyzerVars

\* a loader call rejected: analyzeText's catch replaces the error, the catch
\* of performAnalysis shows its message
modelLoadFailed ==
  /\ pa_pc \in {"loading", "loadingSentiment"}
  /\ ld_calls[pa_call].st = "failed"
  /\ analysisFailed(analyzeTextFailure, "load")
  /\ UNCHANGED loaderVars
  /\ UNCHANGED nonAnalyzerVars

\* keyword revision: classifier(text) fulfilled; 60, 80 and 100 are reported
\* and analyzeText returns without another await
keywordClassified ==
  /\ mlVersion = "keyword"
  /\ pa_pc = "classifying"
  /\ pa_analysisProgress' = 100
  /\ pa_progressLog' = pa_progressLog \o <<60, 80, 100>>
  /\ LET d == detectPollution(pa_text)
     IN  analysisSucceeded(buildMatches(d.confidence, d.detectedType))
  /\ UNCHANGED <<pa_query, pa_doc, pa_text, pa_call, pa_before, pa_lastHandler>>
  /\ UNCHANGED loaderVars
  /\ UNCHANGED nonAnalyzerVars

\* zero-shot revision: classifier(text, pollutionLabels) fulfilled:
\* onProgress(60), sentimentAnalyzer(text) is called
zeroShotClassified ==
  /\ mlVersion = "zeroShot"
  /\ pa_pc = "classifying"
  /\ pa_analysisProgress' = 60
  /\ pa_progressLog' = Append(pa_progressLog, 60)
  /\ pa_pc' = "sentiment"
  /\ UNCHANGED <<pa_query, pa_doc, pa_isAnalyzing, pa_policyMatches, pa_toast, pa_text,
                 pa_call, pa_before, pa_outcome, pa_lastHandler>>
  /\ UNCHANGED loaderVars
  /\ UNCHANGED nonAnalyzerVars

\* zero-shot revision: sentimentAnalyzer(text) fulfilled; 80 and 100 are
\* reported and analyzeText returns
zeroShotSentimentScored ==
  /\ pa_pc = "sentiment"
  /\ pa_analysisProgress' = 100
  /\ pa_progressLog' = pa_progressLog \o <<80, 100>>
  /\ \E out \in ZeroShotOutputs : analysisSucceeded(buildMatches(out.score, out.label))
  /\ UNCHANGED <<pa_query, pa_doc, pa_text, pa_call, pa_before, pa_lastHandler>>
  /\ UNCHANGED loaderVars
  /\ UNCHANGED nonAnalyzerVars

\* a failure that comes only after 100 was reported
modelCallFailed_AfterReport ==
  /\ pa_pc \in {"classifying", "sentiment"}
  /\ pa_analysisProgress' = 100
  /\ pa_progressLog' = Append(pa_progressLog, 100)
  /\ pa_toast' = [title |-> "Analysis Failed", description |-> analyzeTextFailure]
  /\ pa_isAnalyzing' = FALSE
  /\ pa_pc' = "idle"
  /\ pa_outcome' = [result |-> "failed", at |-> "classify"]
  /\ UNCHANGED <<pa_query, pa_doc, pa_policyMatches, pa_text, pa_call, pa_before,
                 pa_lastHandler>>
  /\ UNCHANGED loaderVars
  /\ UNCHANGED nonAnalyzerVars

\* a classifier or sentiment call rejected
modelCallFailed ==
  /\ pa_pc \in {"classifying", "sentiment"}
  /\ analysisFailed(analyzeTextFailure, "classify")
  /\ UNCHANGED loaderVars
  /\ UNCHANGED nonAnalyzerVars

AnalyzerNext ==
  \/ setAnalysisQuery
  \/ handleDocumentUpload
  \/ performAnalysis
  \/ importResolved
  \/ importRejected
  \/ extractResolved
  \/ extractRejected
  \/ webgpuBuilt
  \/ webgpuFailed
  \/ cpuBuilt
  \/ cpuFailed
  \/ textClassifierLoaded
  \/ sentimentAnalyzerLoaded
  \/ modelLoadFailed
  \/ keywordClassified
  \/ zeroShotClassified
  \/ zeroShotSentimentScored
  \/ modelCallFailed

InitText == TextInit /\ ImageIdle /\ DetectorIdle /\ IndexMounted /\ DbEmpty /\ HookRendered /\ LoaderEmpty /\ AnalyzerIdle

SpecText == InitText /\ [][TextNext]_vars

InitImage == TextIdleInput /\ ImageIdle /\ DetectorIdle /\ IndexMounted /\ DbEmpty /\ HookRendered /\ LoaderEmpty /\ AnalyzerIdle

SpecImage == InitImage /\ [][ImageNext]_vars

InitDetector == TextIdleInput /\ ImageIdle /\ DetectorIdle /\ IndexMounted /\ DbEmpty /\ HookRendered /\ LoaderEmpty /\ AnalyzerIdle

\* a pending setTimeout always fires
SpecDetector == InitDetector /\ [][DetectorNext]_vars /\ WF_vars(analysisTimeout)

InitIndex == TextIdleInput /\ ImageIdle /\ DetectorIdle /\ IndexMounted /\ DbEmpty /\ HookRendered /\ LoaderEmpty /\ AnalyzerIdle

\* a scheduled effect always runs
SpecIndex == InitIndex /\ [][IndexNext]_vars /\ WF_vars(runEffect)

InitDb == TextIdleInput /\ ImageIdle /\ DetectorIdle /\ IndexMounted /\ DbEmpty /\ HookRendered /\ LoaderEmpty /\ AnalyzerIdle

SpecDb == InitDb /\ [][DbNext]_vars

SpecMatches == InitDb /\ [][MatchesNext]_vars

InitHook == TextIdleInput /\ ImageIdle /\ DetectorIdle /\ IndexMounted /\ DbEmpty /\ HookRendered /\ LoaderEmpty /\ AnalyzerIdle

SpecHook == InitHook /\ [][HookNext]_vars

InitLoader ==
  /\ mlVersion \in {"keyword", "zeroShot"}
  /\ text = <<>>
  /\ TextIdle
  /\ ImageIdle /\ DetectorIdle /\ IndexMounted /\ DbEmpty /\ HookRendered /\ LoaderEmpty /\ AnalyzerIdle

SpecLoader == InitLoader /\ [][LoaderNext]_vars

InitAnalyzer ==
  /\ mlVersion \in {"keyword", "zeroShot"}
  /\ text = <<>>
  /\ TextIdle
  /\ ImageIdle /\ DetectorIdle /\ IndexMounted /\ DbEmpty /\ HookRendered /\ LoaderEmpty
  /\ AnalyzerIdle

\* every awaited promise settles: the import, the file read, each pipeline
\* construction, each loader call and each model call
SpecAnalyzer ==
  /\ InitAnalyzer
  /\ [][AnalyzerNext]_vars
  /\ WF_vars(importResolved \/ importRejected)
  /\ WF_vars(extractResolved \/ extractRejected)
  /\ WF_vars(webgpuBuilt \/ webgpuFailed)
  /\ WF_vars(cpuBuilt \/ cpuFailed)
  /\ WF_vars(textClassifierLoaded \/ sentimentAnalyzerLoaded \/ modelLoadFailed)
  /\ WF_vars(modelCallFailed \/ keywordClassified \/ zeroShotClassified \/ zeroShotSentimentScored)
(***************************************************************************)
(* Claims about analyzeText (checked under SpecText)                       *)
(***************************************************************************)

\* C1: whenever analyzeText resolves, it returns exactly three matches, one
\* for each policy id of the table ("1", "2", "3"), in order of non-increasing
\* document.relevanceScore.
C1_ThreeMatchesByRelevance ==
  tpc = "done" =>
    /\ Len(textResult) = 3
    /\ \A id \in {"1", "2", "3"} :
         Cardinality({i \in 1..Len(textResult) : textResult[i].document.id = id}) = 1
    /\ \A i \in 1..(Len(textResult) - 1) :
         textResult[i].document.relevanceScore >= textResult[i + 1].document.relevanceScore

\* a resolved call whose three relevance scores differ
C1_Witness ==
  /\ tpc = "done"
  /\ Len(textResult) = 3
  /\ textResult[1].document.relevanceScore > textResult[2].document.relevanceScore
  /\ textResult[2].document.relevanceScore > textResult[3].document.relevanceScore

\* C2: in the keyword revision the detected type is the first category, in the
\* order plastic pollution, oil spill, chemical contamination, marine debris,
\* industrial waste, sewage discharge, with a keyword that is a substring of
\* the lower-cased text, and the confidence is min(0.9, 0.5 + 0.1 * number of
\* that category's keywords that occur); with no match they are
\* 'general pollution' and 0.5.
C2_FirstMatchingCategory ==
  (mlVersion = "keyword" /\ tpc = "done") =>
    LET order == <<"plastic pollution", "oil spill", "chemical contamination",
                   "marine debris", "industrial waste", "sewage discharge">>
        lower == toLowerCase(text)
        kws(c) == (CHOOSE e \in Range(textPollutionKeywords) : e.type = order[c]).keywords
        hits(c) == {k \in 1..Len(kws(c)) : includes(lower, kws(c)[k])}
        matching == {c \in 1..Len(order) : hits(c) # {}}
    IN  /\ \A c \in 1..Len(order) : \E e \in Range(textPollutionKeywords) : e.type = order[c]
        /\ IF matching = {}
           THEN detectedType = "general pollution" /\ confidence = 50
           ELSE LET first == CHOOSE c \in matching : \A b \in matching : c <= b
                    raw == 50 + 10 * Cardinality(hits(first))
                IN  /\ detectedType = order[first]
                    /\ confidence = (IF raw > 90 THEN 90 ELSE raw)

\* a text with four plastic keywords and a keyword of a later category
C2_Witness ==
  /\ mlVersion = "keyword" /\ tpc = "done"
  /\ detectedType = "plastic pollution" /\ confidence = 90
  /\ matchCount(text, textPollutionKeywords[1].keywords) = 4
  /\ includes(toLowerCase(text), <<"w", "a", "s", "t", "e">>)

\* C3: every returned match is 'unclear' when the confidence is at most 0.8;
\* above 0.8 the match of policy "1" is 'violation', of "2" 'unclear' and of
\* "3" 'compliant'.
C3_ComplianceStatus ==
  tpc = "done" =>
    \A i \in 1..Len(textResult) :
      LET m == textResult[i]
      IN  IF confidence <= 80
          THEN m.complianceStatus = "unclear"
          ELSE /\ m.document.id = "1" => m.complianceStatus = "violation"
               /\ m.document.id = "2" => m.complianceStatus = "unclear"
               /\ m.document.id = "3" => m.complianceStatus = "compliant"

\* a resolved call with confidence above 0.8 whose matches carry the three statuses
C3_Witness ==
  /\ tpc = "done" /\ confidence > 80
  /\ {textResult[i].complianceStatus : i \in 1..Len(textResult)}
       = {"violation", "unclear", "compliant"}

(***************************************************************************)
(* Claims about analyzeImage (checked under SpecImage)                     *)
(***************************************************************************)

\* C4: analyzeImage returns at most 5 results and at least one when there is
\* a prediction; the results are the predictions whose label is
\* pollution-related or whose score is above 0.3, in order, cut to five, and
\* when none is kept the single result 'Potential <label>' of the first one.
C4_KeptPredictions ==
  ipc = "done" =>
    LET kept == SelectSeq(predictions,
                  LAMBDA q : isPollutionRelated(toLowerCase(q.label)) \/ q.score > 30)
    IN  /\ Len(imageResult) <= 5
        /\ Len(predictions) >= 1 => Len(imageResult) >= 1
        /\ IF Len(kept) > 0
           THEN /\ Len(imageResult) = (IF Len(kept) > 5 THEN 5 ELSE Len(kept))
                /\ \A j \in 1..Len(imageResult) : imageResult[j].confidence = kept[j].score
           ELSE IF Len(predictions) > 0
                THEN /\ Len(imageResult) = 1
                     /\ imageResult[1].type = <<"P", "o", "t", "e", "n", "t", "i", "a", "l", " ">> \o predictions[1].label
                     /\ imageResult[1].confidence = predictions[1].score
                ELSE imageResult = <<>>

\* more than five predictions, all kept
C4_Witness ==
  /\ ipc = "done"
  /\ Len(predictions) > 5
  /\ \A i \in 1..Len(predictions) : predictions[i].score > 30
  /\ Len(imageResult) = 5

\* C5: each kept prediction gets its type and severity from the first rule
\* that matches its (lower-cased) label: plastic/trash/garbage -> Plastic
\* Debris, high above 0.7, medium above 0.5, else low; oil/spill -> Oil
\* Contamination and chemical/contamination -> Chemical Waste, critical above
\* 0.6, high above 0.4, else medium; otherwise the label itself, high above
\* 0.8, medium above 0.6, else low.  Only Oil Contamination and Chemical
\* Waste results are ever critical.
C5_TypeAndSeverity ==
  ipc = "done" =>
    LET has(l, w) == includes(toLowerCase(l), w)
        kept == SelectSeq(predictions,
                  LAMBDA q : isPollutionRelated(toLowerCase(q.label)) \/ q.score > 30)
        steps(sc, hi, mid, a, b, c) == IF sc > hi THEN a ELSE IF sc > mid THEN b ELSE c
        plastic(l) == has(l, <<"p", "l", "a", "s", "t", "i", "c">>) \/ has(l, <<"t", "r", "a", "s", "h">>) \/ has(l, <<"g", "a", "r", "b", "a", "g", "e">>)
        oil(l) == has(l, <<"o", "i", "l">>) \/ has(l, <<"s", "p", "i", "l", "l">>)
        chem(l) == has(l, <<"c", "h", "e", "m", "i", "c", "a", "l">>) \/ has(l, <<"c", "o", "n", "t", "a", "m", "i", "n", "a", "t", "i", "o", "n">>)
        expType(q) ==
          IF plastic(q.label) THEN <<"P", "l", "a", "s", "t", "i", "c", " ", "D", "e", "b", "r", "i", "s">>
          ELSE IF oil(q.label) THEN <<"O", "i", "l", " ", "C", "o", "n", "t", "a", "m", "i", "n", "a", "t", "i", "o", "n">>
          ELSE IF chem(q.label) THEN <<"C", "h", "e", "m", "i", "c", "a", "l", " ", "W", "a", "s", "t", "e">>
          ELSE q.label
        expSeverity(q) ==
          IF plastic(q.label) THEN steps(q.score, 70, 50, "high", "medium", "low")
          ELSE IF oil(q.label) \/ chem(q.label)
               THEN steps(q.score, 60, 40, "critical", "high", "medium")
               ELSE steps(q.score, 80, 60, "high", "medium", "low")
    IN  /\ Len(kept) > 0 =>
             \A j \in 1..Len(imageResult) :
               /\ j <= Len(kept)
               /\ imageResult[j].type = expType(kept[j])
               /\ imageResult[j].severity = expSeverity(kept[j])
        /\ \A j \in 1..Len(imageResult) :
             imageResult[j].severity = "critical" =>
               imageResult[j].type \in {<<"O", "i", "l", " ", "C", "o", "n", "t", "a", "m", "i", "n", "a", "t", "i", "o", "n">>, <<"C", "h", "e", "m", "i", "c", "a", "l", " ", "W", "a", "s", "t", "e">>}

\* a kept oil prediction that is rated critical
C5_Witness ==
  /\ ipc = "done"
  /\ Len(predictions) = 1 /\ Len(imageResult) = 1
  /\ includes(toLowerCase(predictions[1].label), <<"o", "i", "l">>)
  /\ predictions[1].score = 61
  /\ imageResult[1].severity = "critical"

(***************************************************************************)
(* Claims about PollutionDetector (checked under SpecDetector)             *)
(***************************************************************************)

C6_ClaimedProgress == <<0, 20, 45, 70, 90, 100>>

\* during a run isAnalyzing is true and the values set so far are the first
\* values of 0, 20, 45, 70, 90, 100, the latest being analysisProgress
C6_RunInOrder ==
  det_pc # 0 =>
    /\ det_isAnalyzing
    /\ det_progressLog = SubSeq(C6_ClaimedProgress, 1, det_pc)
    /\ det_analysisProgress = C6_ClaimedProgress[det_pc]

C6_RunSteps ==
  \* within a run the progress never decreases
  /\ (det_pc # 0 /\ det_pc' # 0) => det_analysisProgress' >= det_analysisProgress
  \* results become detections only in the step that completes the six values,
  \* and then they are the three mock detections
  /\ (det_results' # det_results /\ det_results' # NoResults) =>
       /\ det_progressLog' = C6_ClaimedProgress
       /\ det_analysisProgress' = 100
       /\ Len(det_results') = 3
       /\ {det_results'[i].type : i \in 1..3}
            = {"Plastic Debris", "Oil Contamination", "Chemical Waste"}
  \* the step that ends a run leaves isAnalyzing false
  /\ (det_pc # 0 /\ det_pc' = 0) => (~det_isAnalyzing' /\ det_results' # NoResults)
  \* without an image no step starts a run or touches its state
  /\ (imageFile = NoValue /\ imageFile' = NoValue) =>
       UNCHANGED <<det_isAnalyzing, det_analysisProgress, det_results, det_pc>>

\* C6: a run of simulateAnalysis started with an image sets analysisProgress
\* to 0, 20, 45, 70, 90, 100 in that order, never decreasing, with isAnalyzing
\* true; results become the three mock detections only once 100 is reached;
\* every run ends with isAnalyzing false; without an image nothing changes.
C6_SimulatedRun ==
  /\ []C6_RunInOrder
  /\ [][C6_RunSteps]_vars
  /\ (det_isAnalyzing ~> ~det_isAnalyzing)

\* a completed run
C6_Witness ==
  /\ det_pc = 0 /\ ~det_isAnalyzing
  /\ det_progressLog = <<0, 20, 45, 70, 90, 100>>
  /\ det_results = mockResults

(***************************************************************************)
(* Claims about the Index page (checked under SpecIndex)                   *)
(***************************************************************************)

C7_TabIds == {"dashboard", "detector", "map", "policy"}

C7_Registered(tab) ==
  CASE tab = "dashboard" -> "Dashboard"
    [] tab = "detector" -> "PollutionDetector"
    [] tab = "map" -> "InteractiveMap"
    [] tab = "policy" -> "PolicyAnalyzer"

\* a step of a mounted Index in which a tab button is clicked
C7_ClickStep ==
  (route = "/" /\ route' = "/" /\ idx_lastClick' # NoValue
     /\ (idx_lastClick' # idx_lastClick \/ activeTab' # activeTab)) =>
    /\ activeTab' = idx_lastClick'
    /\ UNCHANGED <<auth_loading, auth_user, auth_profile>>

\* C7: activeTab starts as 'dashboard' and is always one of dashboard,
\* detector, map, policy; a tab click sets it to the clicked tab's id and
\* changes none of user, profile, loading; the rendered component is the one
\* registered for activeTab.
C7_TabSelection ==
  /\ activeTab = "dashboard"
  /\ [](activeTab \in C7_TabIds)
  /\ [](idx_view = "page" => idx_component = C7_Registered(activeTab))
  /\ [][C7_ClickStep]_vars
  /\ [][(route # "/" /\ route' = "/") => activeTab' = "dashboard"]_vars

\* the page shows the component of a tab other than the initial one
C7_Witness ==
  /\ idx_view = "page"
  /\ idx_lastClick = "policy" /\ activeTab = "policy"
  /\ idx_component = "PolicyAnalyzer"

C8_Gate ==
  /\ idx_view = "page" => (~auth_loading /\ auth_user # NoValue)
  /\ (route = "/" /\ ~auth_loading /\ auth_user = NoValue) =>
       (idx_view = "null" /\ idx_effectPending)

C8_Steps ==
  \* the scheduled effect, run without a user, navigates to '/auth'
  /\ (route = "/" /\ idx_effectPending /\ ~idx_effectPending'
        /\ ~auth_loading /\ auth_user = NoValue) =>
       navLog' = Append(navLog, [to |-> "/auth", by |-> "effect"])
  \* handleSignOut navigates only in a step in which an awaited signOut resolves
  /\ (navLog' # navLog /\ navLog'[Len(navLog')].by = "handleSignOut") =>
       /\ idx_signOutPending > 0
       /\ idx_signOutPending' = idx_signOutPending - 1
       /\ navLog'[Len(navLog')].to = "/auth"

\* C8: the page (header, tabs, active component) is rendered only while
\* loading is false and a user is present; whenever loading is false and
\* there is no user, nothing is rendered and a navigation to '/auth' is
\* issued; handleSignOut navigates to '/auth' only after signOut completed.
C8_AuthGate ==
  /\ []C8_Gate
  /\ [][C8_Steps]_vars
  /\ ((route = "/" /\ ~auth_loading /\ auth_user = NoValue) ~> (route = "/auth"))

\* both navigations have happened: the effect's and handleSignOut's
C8_Witness ==
  /\ \E i \in 1..Len(navLog) : navLog[i] = [to |-> "/auth", by |-> "effect"]
  /\ \E i \in 1..Len(navLog) : navLog[i] = [to |-> "/auth", by |-> "handleSignOut"]

(***************************************************************************)
(* Claims about the database (checked under SpecDb)                        *)
(***************************************************************************)

C9_ClientKinds == {"createIncident", "updateIncident", "deleteIncident",
                   "insertProfile", "updateProfile", "deleteProfile"}

C9_Ids(rows) == {r.id : r \in rows}

\* what a step made by a client request of user db_lastOp'.actor may do to
\* pollution_incidents
C9_ClientStep ==
  db_lastOp'.kind \in C9_ClientKinds =>
    LET actor == db_lastOp'.actor
    IN  /\ \A new \in db_incidents' :
             new.id \notin C9_Ids(db_incidents) => (actor # NoValue /\ new.user_id = actor)
        /\ \A old \in db_incidents :
             old.id \notin C9_Ids(db_incidents') => (actor # NoValue /\ old.user_id = actor)
        /\ \A old \in db_incidents, new \in db_incidents' :
             (old.id = new.id /\ old # new) =>
               (actor # NoValue /\ old.user_id = actor /\ new.user_id = actor)

\* C9: under the row-level security of pollution_incidents a client can
\* insert an incident only with its own user id, can update or delete only
\* incidents whose user_id is its own, and cannot move an incident to another
\* user's id; every incident is readable by anyone.
C9_IncidentRowSecurity ==
  /\ [][C9_ClientStep]_vars
  /\ [](\A uid \in Users \cup {NoValue} : selectIncidents(uid) = db_incidents)

\* an owner has updated an incident while another user's incident exists
C9_Witness ==
  /\ db_lastOp.kind = "updateIncident" /\ db_lastOp.ok
  /\ \E r \in db_incidents : r.user_id = db_lastOp.actor /\ r.status = "resolved"
  /\ \E r \in db_incidents : r.user_id # db_lastOp.actor

C10_ProfilesOf(u) == {i \in 1..Len(db_profiles) : db_profiles[i].user_id = u}

C10_State ==
  /\ \A u \in Users : db_users[u] = "active" => Cardinality(C10_ProfilesOf(u)) = 1
  /\ \A i \in 1..Len(db_profiles) :
       db_profiles[i].role \in {"researcher", "policy_maker", "ngo", "citizen", NoValue}

C10_Steps ==
  \* a sign-up that creates the user creates the profile with the role of the
  \* metadata, or 'citizen' when the metadata has none
  /\ \A u \in Users :
       (db_users[u] = "unused" /\ db_users'[u] = "active") =>
         /\ db_lastOp'.kind = "signUp"
         /\ \E i \in 1..Len(db_profiles') :
              /\ db_profiles'[i].user_id = u
              /\ db_profiles'[i].role =
                   (IF db_lastOp'.arg = NoValue THEN "citizen" ELSE db_lastOp'.arg)
  \* no client request removes a profile
  /\ db_lastOp'.kind \in C9_ClientKinds =>
       \A u \in Users : Cardinality(C10_ProfilesOf(u)) = 1 =>
         \E i \in 1..Len(db_profiles') : db_profiles'[i].user_id = u

\* C10: every user in auth.users has exactly one profiles row at every point
\* after sign-up; the trigger inserts it with the role of the sign-up
\* metadata, or 'citizen' when absent; user_id is unique; no client request
\* deletes a profile; a profile's role is one of researcher, policy_maker,
\* ngo, citizen, or null.
C10_OneProfilePerUser ==
  /\ []C10_State
  /\ [][C10_Steps]_vars

\* two users signed up, one without role metadata, and one has since set
\* its role to null
C10_Witness ==
  /\ \A u \in Users : db_users[u] = "active"
  /\ \E i \in 1..Len(db_profiles) : db_profiles[i].role = "citizen"
  /\ \E i \in 1..Len(db_profiles) : db_profiles[i].role = NoValue
  /\ db_lastOp.kind = "deleteProfile"

C22_State ==
  \A m \in BagToSet(db_matches) :
    /\ \E r \in db_incidents : r.id = m.incident_id
    /\ m.policy_id \in db_policies
    /\ db_matches[m] = 1

C22_DeleteUserStep ==
  db_lastOp'.kind = "deleteUser" =>
    LET u == db_lastOp'.actor
        gone == {r.id : r \in {x \in db_incidents : x.user_id = u}}
    IN  /\ \A i \in 1..Len(db_profiles') : db_profiles'[i].user_id # u
        /\ \A r \in db_incidents' : r.user_id # u
        /\ \A m \in BagToSet(db_matches') : m.incident_id \notin gone

\* C22: after any sequence of inserts and deletes every policy_matches row
\* references an existing incident and an existing policy, there is at most
\* one row per (incident_id, policy_id) pair, and deleting an auth user
\* removes that user's profile, all of that user's incidents and all
\* policy_matches rows of those incidents.
C22_MatchesConsistent ==
  /\ []C22_State
  /\ [][C22_DeleteUserStep]_vars

\* a user deletion has just removed policy_matches rows while a match of
\* another user's incident remains
C22_Witness ==
  /\ db_lastOp.kind = "deleteUser" /\ db_lastOp.arg = "cascaded"
  /\ db_matches # EmptyBag
  /\ db_incidents # {}

(***************************************************************************)
(* Claims about usePollutionData (checked under SpecHook)                  *)
(***************************************************************************)

\* C11: when createIncident, updateIncident or deleteIncident has resolved, a
\* fetchIncidents query that was issued after the mutation's acknowledgement
\* has completed; the mutation resolves with its own result also when that
\* refresh query failed, and a failed refresh never rejects the mutation.
C11_RefreshBeforeResolve ==
  \A c \in 1..Len(hk_calls) :
    LET call == hk_calls[c]
    IN  /\ call.st = "resolved" =>
             /\ call.refresh \in 1..Len(hk_fetches)
             /\ call.refresh > call.ackedAt
             /\ hk_fetches[call.refresh].origin = "refresh"
             /\ hk_fetches[call.refresh].st = "done"
             /\ call.result = mutationResult(call.kind)
        /\ (call.refresh \in 1..Len(hk_fetches) /\ hk_fetches[call.refresh].st = "done")
             => call.st = "resolved"
        /\ call.st = "rejected" => call.refresh = 0

\* a mutation has resolved although its refresh query failed
C11_Witness ==
  \E c \in 1..Len(hk_calls) :
    /\ hk_calls[c].st = "resolved"
    /\ hk_calls[c].result = "data"
    /\ hk_fetches[hk_calls[c].refresh].out = "err"
    /\ hk_error = errorMessage("select")

\* the fetchIncidents runs started by origin o
C12_Started(fetches, o) == Cardinality({i \in 1..Len(fetches) : fetches[i].origin = o})

\* once the effect has run, exactly one fetch was started by the mount, and
\* the fetches started by change events are as many as the delivered events
C12_Counts ==
  /\ hk_phase = "rendered" => hk_fetches = <<>>
  /\ hk_phase # "rendered" => (C12_Started(hk_fetches, "mount") = 1 /\ hk_fetches[1].origin = "mount")
  /\ C12_Started(hk_fetches, "event") = hk_delivered
  /\ hk_phase = "unmounted" => hk_channel = "removed"

\* an event is delivered only to the mounted hook and starts exactly one fetch;
\* after unmount no step starts a fetch for an event, whatever changes follow
C12_Steps ==
  /\ hk_delivered' # hk_delivered =>
       /\ hk_phase = "mounted"
       /\ hk_delivered' = hk_delivered + 1
       /\ hk_events' = hk_events - 1
       /\ Len(hk_fetches') = Len(hk_fetches) + 1
       /\ hk_fetches'[Len(hk_fetches')].origin = "event"
  /\ hk_phase = "unmounted" =>
       /\ hk_phase' = "unmounted"
       /\ hk_channel' = "removed"
       /\ hk_delivered' = hk_delivered
       /\ C12_Started(hk_fetches', "event") = C12_Started(hk_fetches, "event")
       /\ C12_Started(hk_fetches', "mount") = 1

\* C12: while the component is mounted, one fetchIncidents is started at mount
\* and one for every postgres change event delivered to the channel; after
\* unmount the channel is removed and no later change event starts a fetch.
C12_FetchPerEvent == []C12_Counts /\ [][C12_Steps]_vars

\* the hook is unmounted while a change event is still on its way: only the
\* mount fetch was ever started
C12_Witness ==
  /\ hk_phase = "unmounted"
  /\ hk_events = 1
  /\ hk_table = 1
  /\ Len(hk_fetches) = 1
  /\ hk_fetches[1].st = "done"

C20_RejectStep ==
  \A c \in 1..Len(hk_calls) :
    (hk_calls[c].st # "rejected" /\ hk_calls'[c].st = "rejected") =>
      /\ hk_calls[c].st = "sent"
      /\ hk_error' = errorMessage(hk_calls[c].kind)
      /\ hk_calls'[c].result = errorMessage(hk_calls[c].kind)
      /\ hk_calls'[c].refresh = 0
      /\ UNCHANGED <<hk_fetches, hk_incidents, hk_loading, hk_table>>

\* C20: when the backend rejects a createIncident, updateIncident or
\* deleteIncident, the hook sets error to the failure's message and rethrows
\* it to the caller; no refresh fetch is started, and incidents and loading
\* are left as they were.
C20_RejectedMutation == [][C20_RejectStep]_vars

\* an update was rejected after the mount fetch had completed: loading is
\* still false and the list is the fetched one
C20_Witness ==
  /\ hk_calls # <<>>
  /\ hk_calls[1] = [kind |-> "update", st |-> "rejected", ackedAt |-> 0, refresh |-> 0,
                    result |-> errorMessage("update")]
  /\ hk_error = errorMessage("update")
  /\ hk_loading = FALSE
  /\ hk_table = 1
  /\ hk_incidents = 1
  /\ Len(hk_fetches) = 1

\* C21: when several fetchIncidents runs overlap and their responses arrive
\* in any order, then once all of them have completed, incidents holds the
\* result of the query that was issued last (here: whenever that query
\* succeeded), never the result of a query issued earlier.
C21_LastIssuedWins ==
  ( /\ hk_fetches # <<>>
    /\ \A i \in 1..Len(hk_fetches) : hk_fetches[i].st = "done"
    /\ hk_fetches[Len(hk_fetches)].out = "ok" )
  => hk_incidents = hk_fetches[Len(hk_fetches)].data

(***************************************************************************)
(* Claims about the model caches (checked under SpecLoader)                *)
(***************************************************************************)

\* the constructions for model m that succeeded
C13_Succeeded(m) ==
  {p \in 1..Len(ld_pipelines) : ld_pipelines[p].model = m /\ ld_pipelines[p].st = "ok"}

\* C13: each model is loaded at most once: over any sequence and any overlap
\* of calls, at most one pipeline construction per model succeeds, and no
\* construction is started while the model's cache variable is non-null.
C13_LoadedAtMostOnce ==
  /\ \A m \in Models : Cardinality(C13_Succeeded(m)) <= 1
  /\ \A p \in 1..Len(ld_pipelines) : ~ld_pipelines[p].cached

\* the latest call for model m among the first n calls (0 when none)
C16_LatestCall(m, n) ==
  LET earlier == {k \in 1..n : ld_calls[k].model = m}
  IN  IF earlier = {} THEN 0 ELSE CHOOSE k \in earlier : \A j \in earlier : j <= k

C16_FallbackStep ==
  /\ \A c \in 1..Len(ld_calls) :
       LET m == ld_calls[c].model
       IN  /\ (ld_calls[c].st = "webgpu" /\ ld_calls'[c].st # "webgpu") =>
                \/ ld_calls'[c].st = "returned"
                \/ /\ ld_calls'[c].st = "cpu"
                   /\ Len(ld_pipelines') = Len(ld_pipelines) + 1
                   /\ ld_pipelines'[Len(ld_pipelines')].device = "cpu"
                   /\ ld_pipelines'[Len(ld_pipelines')].model = m
           /\ (ld_calls[c].st = "cpu" /\ ld_calls'[c].st # "cpu") =>
                /\ Len(ld_pipelines') = Len(ld_pipelines)
                /\ \/ /\ ld_calls'[c].st = "returned"
                      /\ ld_calls'[c].result # 0
                      /\ ld_cache'[m] = ld_calls'[c].result
                   \/ /\ ld_calls'[c].st = "failed"
                      /\ ld_cache'[m] = 0
  /\ Len(ld_calls') = Len(ld_calls) + 1 =>
       LET new == ld_calls'[Len(ld_calls')]
           last == C16_LatestCall(new.model, Len(ld_calls))
       IN  (last # 0 /\ ld_calls[last].st = "failed") =>
             /\ new.st = "webgpu"
             /\ ld_pipelines'[new.pipeline].device = "webgpu"

\* C16: when the WebGPU construction fails, exactly one CPU construction is
\* attempted in the same call; if it succeeds the classifier is cached and
\* returned like a WebGPU one; if it fails too, the cache variable stays null,
\* the call fails, and the next call for that model starts loading again from
\* the WebGPU step.
C16_FallbackAndRetry == [][C16_FallbackStep]_vars

(***************************************************************************)
(* Further claims about analyzeText (checked under SpecText)               *)
(***************************************************************************)

\* C14: for every category of the pollutionKeywords table and every keyword
\* listed under it, analyzeText of a text that is that keyword alone detects
\* that category.
C14_KeywordAloneDetectsItsCategory ==
  (mlVersion = "keyword" /\ tpc = "done") =>
    \A i \in 1..Len(textPollutionKeywords) :
      \A j \in 1..Len(textPollutionKeywords[i].keywords) :
        text = textPollutionKeywords[i].keywords[j]
          => detectedType = textPollutionKeywords[i].type

(***************************************************************************)
(* Claims about PolicyAnalyzer and the analyzeText it runs (checked under  *)
(* SpecAnalyzer)                                                           *)
(***************************************************************************)

\* C15: when the text classifier can be loaded neither on WebGPU nor on CPU,
\* the error that reaches the caller of analyzeText, and so the description
\* of PolicyAnalyzer's 'Analysis Failed' toast, carries the message
\* 'Unable to load text analysis model'.
C15_LoadErrorReachesCaller ==
  ( /\ mlVersion = "keyword"
    /\ pa_pc = "idle"
    /\ pa_outcome = [result |-> "failed", at |-> "load"]
    /\ ld_calls[pa_call].model = "text"
    /\ pa_toast.title = "Analysis Failed" )
  => pa_toast.description = "Unable to load text analysis model"

\* C17: performAnalysis invoked with an empty query and no uploaded document
\* only emits the 'Input Required' toast: no extractTextFromFile or
\* analyzeText call is made (no await is entered, no loader call starts), and
\* isAnalyzing, analysisProgress and policyMatches are unchanged.
C17_EmptyInputStep ==
  ( /\ pa_query = <<>>
    /\ pa_doc = NoValue
    /\ pa_pc = "idle"
    /\ pa_lastHandler' = "performAnalysis" )
  => /\ pa_toast'.title = "Input Required"
     /\ pa_pc' = "idle"
     /\ UNCHANGED <<pa_isAnalyzing, pa_analysisProgress, pa_policyMatches, pa_text,
                    pa_progressLog, loaderVars>>

C17_NoAnalysisWithoutInput == [][C17_EmptyInputStep]_vars

\* the button was pressed with nothing to analyze while the matches of an
\* earlier run are shown
C17_Witness ==
  /\ pa_lastHandler = "performAnalysis"
  /\ pa_toast.title = "Input Required"
  /\ pa_query = <<>>
  /\ pa_doc = NoValue
  /\ pa_policyMatches # NoMatches
  /\ pa_analysisProgress = 100
  /\ ~pa_isAnalyzing

C18_State ==
  /\ pa_isAnalyzing <=> pa_pc # "idle"
  /\ (pa_pc = "idle" /\ pa_outcome.result = "failed") => pa_policyMatches = pa_before

C18_Step ==
  pa_policyMatches' # pa_policyMatches =>
    /\ pa_pc # "idle"
    /\ pa_pc' = "idle"
    /\ pa_outcome'.result = "ok"

\* C18: every run that passes the input check ends with isAnalyzing = false,
\* whether extraction or analysis succeeds or throws; policyMatches is
\* replaced only on success, and after a failed run it has the value it had
\* before the run.
C18_RunAlwaysEnds ==
  /\ []C18_State
  /\ [][C18_Step]_vars
  /\ (pa_isAnalyzing ~> ~pa_isAnalyzing)

\* a failed run after a successful one: the earlier matches are still there
C18_Witness ==
  /\ pa_pc = "idle"
  /\ ~pa_isAnalyzing
  /\ pa_outcome.result = "failed"
  /\ pa_policyMatches # NoMatches
  /\ pa_toast.title = "Analysis Failed"

C19_Reported == {pa_progressLog[i] : i \in 1..Len(pa_progressLog)}

C19_State ==
  /\ pa_analysisProgress = IF pa_progressLog = <<>> THEN 0 ELSE pa_progressLog[Len(pa_progressLog)]
  /\ pa_progressLog # <<>> =>
       /\ pa_progressLog[1] = 0
       /\ \A i \in 2..Len(pa_progressLog) :
            /\ pa_progressLog[i] \in {20, 40, 60, 80, 100}
            /\ pa_progressLog[i] > pa_progressLog[i - 1]
  /\ 100 \in C19_Reported <=> pa_outcome.result = "ok"

C19_Step ==
  /\ (pa_pc = "idle" /\ pa_pc' # "idle") => (pa_analysisProgress' = 0 /\ pa_progressLog' = <<0>>)
  /\ (pa_pc # "idle" /\ pa_outcome'.result = "failed") =>
       UNCHANGED <<pa_analysisProgress, pa_progressLog>>
  /\ pa_pc = "idle" /\ pa_pc' = "idle" => UNCHANGED <<pa_analysisProgress, pa_progressLog>>

\* C19: a run resets analysisProgress to 0 and then reports only values of
\* 20, 40, 60, 80, 100, each greater than the one before; 100 is reported if
\* and only if analyzeText returns successfully; a failure reports nothing,
\* so after a failed run analysisProgress is the last value reported before.
C19_ProgressValues == []C19_State /\ [][C19_Step]_vars

\* the classifier call rejected after 40 was reported
C19_Witness ==
  /\ pa_pc = "idle"
  /\ pa_outcome = [result |-> "failed", at |-> "classify"]
  /\ pa_progressLog = <<0, 20, 40>>
  /\ pa_analysisProgress = 40

====
